---- MODULE Spec2Model ----
(***************************************************************************)
(* A model of the CJ Agency API (src/api/index.js): the financial          *)
(* state-locking rules of the deal, task, team-member and pay-log          *)
(* handlers, and the audit trail they write.                               *)
(*                                                                         *)
(* The database is the only shared state.  Each table is a function from   *)
(* the ids of its stored rows to the rows (profit_share_status, which has  *)
(* a composite key, is a set of rows).  A handler is a sequence of store   *)
(* calls separated by `await`; a request in flight occupies a slot of      *)
(* `req`, whose pc names the store call it will make next.  An action is   *)
(* one such store call together with the synchronous code around it, so    *)
(* requests held in different slots interleave exactly at the awaits.      *)
(* The sequential specifications use a single slot.                        *)
(*                                                                         *)
(* A slot keeps, besides the handler's locals, the snapshot of the tables  *)
(* and the length of the audit log taken when the request arrived (pre,    *)
(* preAudit): these are history variables read by the properties only.     *)
(*                                                                         *)
(* `tokens` is the set of token payloads signed so far.  A token stays     *)
(* valid whatever is stored afterwards: the middleware reads the token     *)
(* only.                                                                   *)
(***************************************************************************)
EXTENDS Integers, Sequences, FiniteSets, TLC

VARIABLES deals, projects, tasks, team_members, profit_share_status,
          pay_status, pay_log, audit_log, req, nreq, tokens

business == <<deals, projects, tasks, team_members, profit_share_status,
              pay_status, pay_log>>
vars == <<deals, projects, tasks, team_members, profit_share_status,
          pay_status, pay_log, audit_log, req, nreq, tokens>>

(***************************************************************************)
(* Bounds of the model: the number of requests a behaviour may hold.       *)
(***************************************************************************)
MaxReqs == 3
MaxSeqReqs == 6
MaxConcReqs == 3
MaxAllReqs == 2

(***************************************************************************)
(* Values.  Null is SQL NULL / JS null where a row is expected; NullText   *)
(* is NULL in a text column.                                               *)
(***************************************************************************)
Null == [null |-> TRUE]
NullText == "null"
NoBody == [k \in {} |-> 0]
NoRes == [status |-> 0, error |-> <<>>]

Snapshot == [deals |-> deals, projects |-> projects, tasks |-> tasks,
             team_members |-> team_members,
             profit_share_status |-> profit_share_status,
             pay_status |-> pay_status, pay_log |-> pay_log]

\* A field of a request body, `d` when the body does not hold it.
Field(body, k, d) == IF k \in DOMAIN body THEN body[k] ELSE d

\* JS `v || d` on a number and on a string: 0 and "" are falsy.
OrNum(v, d) == IF v = 0 THEN d ELSE v
OrStr(v, d) == IF v = "" THEN d ELSE v

\* SQL UPDATE ... SET of the columns of `updates` on one row.
StoreUpdate_noMatch(row, updates) == row

StoreUpdate(row, updates) ==
  [k \in DOMAIN row |-> IF k \in DOMAIN updates THEN updates[k] ELSE row[k]]

\* SQL DELETE of the row with key `id` (no row: nothing happens, no error).
StoreDelete(table, id) == [k \in DOMAIN table \ {id} |-> table[k]]

(***************************************************************************)
(* Requests.                                                               *)
(***************************************************************************)
IdleReq == [pc |-> "idle", op |-> "", id |-> "", body |-> NoBody,
            user |-> [sub |-> "", name |-> "", role |-> ""], fault |-> "none",
            current |-> Null, changes |-> Null, res |-> NoRes,
            pre |-> Null, preAudit |-> 0, n |-> 0]

\* A request as it arrives: fault names the store call the environment
\* fails during this request ("audit": the audit_log insert, "write": the
\* handler's primary write, "none": neither); n is the number of the
\* request in arrival order.
NewReq(op, id, body, user, fault) ==
  [pc |-> "start", op |-> op, id |-> id, body |-> body, user |-> user,
   fault |-> fault, current |-> Null, changes |-> Null, res |-> NoRes,
   pre |-> Snapshot, preAudit |-> Len(audit_log), n |-> nreq + 1]

Free(s) == req[s].pc \in {"idle", "done"}

\* res.status(status).json({ error }) / res.json(...)
Respond(r, status, error) ==
  [r EXCEPT !.pc = "done", !.res = [status |-> status, error |-> error]]

Goto(r, pc) == [r EXCEPT !.pc = pc]

SetReq(s, r) == req' = [req EXCEPT ![s] = r]

\* The catch clause of every handler: res.status(500).json({ error: e.message })
Catch(r, message) == Respond(r, 500, <<message>>)

(***************************************************************************)
(* lib/auth: the role checks of the middleware.                            *)
(***************************************************************************)
\* signToken(member): the payload of the token.
signToken(id, member) == [sub |-> id, name |-> member.name, role |-> member.auth_role]

\* The tokens of the members of `team`, each logged in with the stored role.
TokensOf(team) == {signToken(id, team[id]) : id \in DOMAIN team}

requireAdmin_classA(user) == user.role = "admin" \/ user.role = "class_a"

requireAdmin(user) == user.role = "admin"

requireCanDelete(user) == user.role = "admin" \/ user.role = "class_a"

(***************************************************************************)
(* Audit log.                                                              *)
(***************************************************************************)
AuditRow(actor, action, tableName, recordId, changes) ==
  [actor_id |-> actor.sub, actor_name |-> OrStr(actor.name, "unknown"),
   action |-> action, table_name |-> tableName, record_id |-> recordId,
   changes |-> changes]

\* auditLog: the insert, and whether the call throws into the handler.  A
\* failed insert is caught inside auditLog and only logged.
auditLog_replace(log, failed, actor, action, tableName, recordId, changes) ==
  IF failed
    THEN [log |-> log, threw |-> FALSE]
    ELSE [log |-> <<AuditRow(actor, action, tableName, recordId, changes)>>,
          threw |-> FALSE]

auditLog_rethrow(log, failed, actor, action, tableName, recordId, changes) ==
  IF failed
    THEN [log |-> log, threw |-> TRUE]
    ELSE [log |-> Append(log, AuditRow(actor, action, tableName, recordId, changes)),
          threw |-> FALSE]

auditLog(log, failed, actor, action, tableName, recordId, changes) ==
  IF failed
    THEN [log |-> log, threw |-> FALSE]
    ELSE [log |-> Append(log, AuditRow(actor, action, tableName, recordId, changes)),
          threw |-> FALSE]

\* `await auditLog(...)` inside a handler's try block, followed by `next`.
AwaitAudit(s, action, tableName, changes, next) ==
  LET r == req[s]
      a == auditLog(audit_log, r.fault = "audit", r.user, action, tableName,
                    r.id, changes)
  IN /\ audit_log' = a.log
     /\ SetReq(s, IF a.threw THEN Catch(r, "audit") ELSE next)

(***************************************************************************)
(* Deals.                                                                  *)
(***************************************************************************)
FINANCIAL_FIELDS_withStatus == <<"value", "buckets", "prob", "invoiceStatus">>

FINANCIAL_FIELDS == <<"value", "buckets", "prob">>

isPaid_wrongCase(current) == current.invoice_status = "Paid"

isPaid_anyInvoice(current) == current.invoice_status # "none"

isPaid(current) == current.invoice_status = "paid"

attemptedFinancial(body) ==
  SelectSeq(FINANCIAL_FIELDS, LAMBDA f : f \in DOMAIN body)

DealEditLocked_onlyFinancial(current, body) ==
  /\ isPaid(current)
  /\ Len(attemptedFinancial(body)) > 0
  /\ \A k \in DOMAIN body : \E i \in 1..Len(FINANCIAL_FIELDS) : FINANCIAL_FIELDS[i] = k

\* isPaid && attemptedFinancial.length > 0
DealEditLocked(current, body) ==
  isPaid(current) /\ Len(attemptedFinancial(body)) > 0

\* deal?.invoice_status === 'paid'
DealDeleteLocked_wrongColumn(deal) == deal # Null /\ deal.stage = "paid"

DealDeleteLocked(deal) == deal # Null /\ deal.invoice_status = "paid"

\* Columns dealToRow copies as they are, and columns it gives a default.
DealPlainCols == [name |-> "name", client |-> "client", value |-> "value",
                  stage |-> "stage", owner |-> "owner"]
DealDefaultCols == [expenses |-> "expenses", closeDate |-> "close_date",
                    invoiceStatus |-> "invoice_status",
                    amountCollected |-> "amount_collected",
                    buckets |-> "buckets", prob |-> "prob"]

DealCell(body, key) ==
  CASE key = "expenses"        -> OrNum(body[key], 0)
    [] key = "closeDate"       -> OrStr(body[key], NullText)
    [] key = "invoiceStatus"   -> OrStr(body[key], "none")
    [] key = "amountCollected" -> OrNum(body[key], 0)
    [] key = "buckets"         -> body[key]
    [] key = "prob"            -> OrNum(body[key], 0)
    [] OTHER                   -> body[key]

DealDefault(key) ==
  CASE key = "expenses"        -> 0
    [] key = "closeDate"       -> NullText
    [] key = "invoiceStatus"   -> "none"
    [] key = "amountCollected" -> 0
    [] key = "buckets"         -> <<>>
    [] key = "prob"            -> 0

\* dealToRow(body, partial): the columns to write.  A plain column whose key
\* the body lacks is undefined and is not sent to the store.
dealToRow(body, partial) ==
  LET plain == {k \in DOMAIN DealPlainCols : k \in DOMAIN body}
      dflt  == {k \in DOMAIN DealDefaultCols : ~partial \/ k \in DOMAIN body}
      col(k) == IF k \in DOMAIN DealPlainCols THEN DealPlainCols[k]
                ELSE DealDefaultCols[k]
      keyOf(c) == CHOOSE k \in plain \cup dflt : col(k) = c
  IN [c \in {col(k) : k \in plain \cup dflt} |->
        IF keyOf(c) \in DOMAIN body THEN DealCell(body, keyOf(c))
        ELSE DealDefault(keyOf(c))]

\* The audit diff of PATCH /api/deals/:id over the columns of `row`.
DealChanges_all(row, current, data) ==
  [k \in DOMAIN row |-> [from |-> current[k], to |-> data[k]]]

DealChanges(row, current, data) ==
  [k \in {c \in DOMAIN row : current[c] # data[c]} |->
     [from |-> current[k], to |-> data[k]]]

\* app.patch('/api/deals/:id'): the middleware and the read of the deal.
PatchDeal(s, id, body, user, fault) ==
  /\ Free(s)
  /\ nreq' = nreq + 1
  /\ UNCHANGED tokens
  /\ LET r == NewReq("PATCH /api/deals/:id", id, body, user, fault) IN
       IF ~requireAdmin(user)
         THEN SetReq(s, Respond(r, 403, <<"Admin access required">>))
       ELSE IF id \notin DOMAIN deals
         THEN SetReq(s, Catch(r, "fetchErr"))
       ELSE LET current == deals[id] IN
         IF DealEditLocked(current, body)
           THEN SetReq(s, [Goto(r, "patch_deal_blocked") EXCEPT !.current = current])
           ELSE SetReq(s, [Goto(r, "patch_deal_update") EXCEPT !.current = current])
  /\ UNCHANGED <<business, audit_log>>

\* The BLOCKED_EDIT_PAID_DEAL audit row and the 403.
PatchDealBlocked(s) ==
  /\ req[s].pc = "patch_deal_blocked"
  /\ AwaitAudit(s, "BLOCKED_EDIT_PAID_DEAL", "deals",
                [attempted |-> attemptedFinancial(req[s].body),
                 reason |-> "deal is paid"],
                Respond(req[s], 403, <<"Deal is marked Paid">>))
  /\ UNCHANGED <<business, nreq, tokens>>

\* The update, and the diff of the columns written.
PatchDealUpdate(s) ==
  /\ req[s].pc = "patch_deal_update"
  /\ LET r == req[s]
         row == dealToRow(r.body, TRUE)
     IN IF r.fault = "write" \/ r.id \notin DOMAIN deals
          THEN /\ SetReq(s, Catch(r, "error"))
               /\ UNCHANGED deals
          ELSE LET data == StoreUpdate(deals[r.id], row)
                   changes == DealChanges(row, r.current, data)
               IN /\ deals' = [deals EXCEPT ![r.id] = data]
                  /\ IF DOMAIN changes # {}
                       THEN SetReq(s, [Goto(r, "patch_deal_audit") EXCEPT !.changes = changes])
                       ELSE SetReq(s, Respond(r, 200, <<>>))
  /\ UNCHANGED <<projects, tasks, team_members, profit_share_status,
                 pay_status, pay_log, audit_log, nreq, tokens>>

\* The EDIT_DEAL audit row and the 200.
PatchDealAudit(s) ==
  /\ req[s].pc = "patch_deal_audit"
  /\ AwaitAudit(s, "EDIT_DEAL", "deals", req[s].changes,
                Respond(req[s], 200, <<>>))
  /\ UNCHANGED <<business, nreq, tokens>>

\* app.delete('/api/deals/:id'): the middleware and the read of the deal.
DeleteDeal(s, id, user, fault) ==
  /\ Free(s)
  /\ nreq' = nreq + 1
  /\ UNCHANGED tokens
  /\ LET r == NewReq("DELETE /api/deals/:id", id, NoBody, user, fault) IN
       IF ~requireCanDelete(user)
         THEN SetReq(s, Respond(r, 403, <<"Deleting records requires Admin or Class A access">>))
       ELSE LET deal == IF id \in DOMAIN deals THEN deals[id] ELSE Null IN
         IF DealDeleteLocked(deal)
           THEN SetReq(s, [Goto(r, "delete_deal_blocked") EXCEPT !.current = deal])
           ELSE SetReq(s, [Goto(r, "delete_deal_audit") EXCEPT !.current = deal])
  /\ UNCHANGED <<business, audit_log>>

\* The BLOCKED_DELETE_PAID_DEAL audit row and the 403.
DeleteDealBlocked(s) ==
  /\ req[s].pc = "delete_deal_blocked"
  /\ AwaitAudit(s, "BLOCKED_DELETE_PAID_DEAL", "deals",
                [name |-> req[s].current.name],
                Respond(req[s], 403, <<"Cannot delete a deal marked as Paid.">>))
  /\ UNCHANGED <<business, nreq, tokens>>

\* The DELETE_DEAL audit row, written before the delete ({ name: undefined }
\* serialises to {} when the deal was not found).
DeleteDealAudit(s) ==
  /\ req[s].pc = "delete_deal_audit"
  /\ AwaitAudit(s, "DELETE_DEAL", "deals",
                IF req[s].current = Null THEN NoBody
                ELSE [name |-> req[s].current.name],
                Goto(req[s], "delete_deal_delete"))
  /\ UNCHANGED <<business, nreq, tokens>>

\* The delete; projects.deal_id is ON DELETE SET NULL.
DeleteDealDelete(s) ==
  /\ req[s].pc = "delete_deal_delete"
  /\ LET r == req[s] IN
       IF r.fault = "write"
         THEN /\ SetReq(s, Catch(r, "error"))
              /\ UNCHANGED <<deals, projects>>
         ELSE /\ deals' = StoreDelete(deals, r.id)
              /\ projects' = [p \in DOMAIN projects |->
                                IF projects[p].deal_id = r.id
                                  THEN [projects[p] EXCEPT !.deal_id = NullText]
                                  ELSE projects[p]]
              /\ SetReq(s, Respond(r, 200, <<>>))
  /\ UNCHANGED <<tasks, team_members, profit_share_status, pay_status,
                 pay_log, audit_log, nreq, tokens>>

(***************************************************************************)
(* Projects and tasks.                                                     *)
(***************************************************************************)
\* getLockedDeal(dealId): the deal if it is paid, else null.
getLockedDeal_anyDeal(dealId) ==
  IF dealId \in DOMAIN deals
    THEN [id |-> dealId, name |-> deals[dealId].name,
          invoice_status |-> deals[dealId].invoice_status]
    ELSE Null

getLockedDeal(dealId) ==
  IF dealId \in DOMAIN deals /\ deals[dealId].invoice_status = "paid"
    THEN [id |-> dealId, name |-> deals[dealId].name,
          invoice_status |-> deals[dealId].invoice_status]
    ELSE Null

\* .select(...).eq('id', id).single(): the row, or null.
SelectSingle(table, id) == IF id \in DOMAIN table THEN table[id] ELSE Null

\* task?.project_id
HasProject(task) == task # Null /\ task.project_id # NullText

\* proj?.status === 'complete' && proj?.deal_id
CompleteWithDeal(proj) ==
  proj # Null /\ proj.status = "complete" /\ proj.deal_id # NullText

TaskCols == [title |-> "title", projectId |-> "project_id",
             assigneeId |-> "assignee_id", dueDate |-> "due_date",
             priority |-> "priority", status |-> "status",
             estHours |-> "est_hours"]

\* The `updates` object of PATCH /api/tasks/:id.
TaskUpdates(body) ==
  LET keys == {k \in DOMAIN TaskCols : k \in DOMAIN body}
      keyOf(c) == CHOOSE k \in keys : TaskCols[k] = c
  IN [c \in {TaskCols[k] : k \in keys} |-> body[keyOf(c)]]

\* app.patch('/api/tasks/:id'): any authenticated user; when the payload
\* holds estHours, the read of the task's project_id.
PatchTask(s, id, body, user, fault) ==
  /\ Free(s)
  /\ nreq' = nreq + 1
  /\ UNCHANGED tokens
  /\ LET r == NewReq("PATCH /api/tasks/:id", id, body, user, fault)
         task == SelectSingle(tasks, id)
     IN IF "estHours" \in DOMAIN body /\ HasProject(task)
          THEN SetReq(s, [Goto(r, "patch_task_project") EXCEPT
                            !.current = [project_id |-> task.project_id]])
          ELSE SetReq(s, Goto(r, "patch_task_update"))
  /\ UNCHANGED <<business, audit_log>>

\* The read of the project's status and deal_id.
PatchTaskProject(s) ==
  /\ req[s].pc = "patch_task_project"
  /\ LET r == req[s]
         proj == SelectSingle(projects, r.current.project_id)
     IN IF CompleteWithDeal(proj)
          THEN SetReq(s, [Goto(r, "patch_task_deal") EXCEPT
                            !.current = [deal_id |-> proj.deal_id]])
          ELSE SetReq(s, Goto(r, "patch_task_update"))
  /\ UNCHANGED <<business, audit_log, nreq, tokens>>

\* getLockedDeal(proj.deal_id): the read of the deal.
PatchTaskDeal(s) ==
  /\ req[s].pc = "patch_task_deal"
  /\ LET r == req[s] IN
       IF getLockedDeal(r.current.deal_id) # Null
         THEN SetReq(s, Goto(r, "patch_task_blocked"))
         ELSE SetReq(s, Goto(r, "patch_task_update"))
  /\ UNCHANGED <<business, audit_log, nreq, tokens>>

\* The BLOCKED_EDIT_TASK_HOURS audit row and the 403.
PatchTaskBlocked(s) ==
  /\ req[s].pc = "patch_task_blocked"
  /\ AwaitAudit(s, "BLOCKED_EDIT_TASK_HOURS", "tasks",
                [attempted_hours |-> req[s].body.estHours,
                 reason |-> "project complete + deal paid"],
                Respond(req[s], 403, <<"Task hours are locked">>))
  /\ UNCHANGED <<business, nreq, tokens>>

\* The update; tasks.project_id references projects.
PatchTaskUpdate(s) ==
  /\ req[s].pc = "patch_task_update"
  /\ LET r == req[s]
         updates == TaskUpdates(r.body)
         fk == "project_id" \in DOMAIN updates
                 => updates.project_id \in DOMAIN projects
     IN IF r.fault = "write" \/ r.id \notin DOMAIN tasks \/ ~fk
          THEN /\ SetReq(s, Catch(r, "error"))
               /\ UNCHANGED tasks
          ELSE /\ tasks' = [tasks EXCEPT ![r.id] = StoreUpdate(tasks[r.id], updates)]
               /\ SetReq(s, Respond(r, 200, <<>>))
  /\ UNCHANGED <<deals, projects, team_members, profit_share_status,
                 pay_status, pay_log, audit_log, nreq, tokens>>

ProjectCols == [status |-> "status", archived |-> "archived", name |-> "name",
                startDate |-> "start_date", endDate |-> "end_date"]

\* The `updates` object of PATCH /api/projects/:id.
ProjectUpdates(body) ==
  LET keys == {k \in DOMAIN ProjectCols : k \in DOMAIN body}
      keyOf(c) == CHOOSE k \in keys : ProjectCols[k] = c
  IN [c \in {ProjectCols[k] : k \in keys} |-> body[keyOf(c)]]

ProjectNewIds == <<"pn1", "pn2", "pn3", "pn4", "pn5", "pn6", "pn7", "pn8">>

\* The row POST /api/projects inserts: `x || default` for the optional
\* fields, archived always false.
ProjectRow(body) ==
  [name |-> Field(body, "name", NullText),
   deal_id |-> OrStr(Field(body, "dealId", ""), NullText),
   client |-> Field(body, "client", ""),
   start_date |-> OrStr(Field(body, "startDate", ""), NullText),
   end_date |-> OrStr(Field(body, "endDate", ""), NullText),
   status |-> OrStr(Field(body, "status", ""), "active"),
   archived |-> FALSE]

\* app.post('/api/projects'): requireAdmin, one store call; projects.name is
\* NOT NULL and projects.deal_id references deals.
PostProject(s, body, user, fault) ==
  /\ Free(s)
  /\ nreq' = nreq + 1
  /\ UNCHANGED tokens
  /\ LET r == NewReq("POST /api/projects", "", body, user, fault)
         row == ProjectRow(body)
     IN IF ~requireAdmin(user)
          THEN /\ SetReq(s, Respond(r, 403, <<"Admin access required">>))
               /\ UNCHANGED projects
        ELSE IF \/ fault = "write"
                \/ row.name = NullText
                \/ row.deal_id \notin DOMAIN deals \cup {NullText}
          THEN /\ SetReq(s, Catch(r, "error"))
               /\ UNCHANGED projects
        ELSE LET id == ProjectNewIds[nreq + 1] IN
             /\ projects' = (id :> row) @@ projects
             /\ SetReq(s, [Respond(r, 201, <<>>) EXCEPT !.id = id])
  /\ UNCHANGED <<deals, tasks, team_members, profit_share_status,
                 pay_status, pay_log, audit_log>>

\* app.patch('/api/projects/:id'): any authenticated user; one store call.
PatchProject(s, id, body, user, fault) ==
  /\ Free(s)
  /\ nreq' = nreq + 1
  /\ UNCHANGED tokens
  /\ LET r == NewReq("PATCH /api/projects/:id", id, body, user, fault) IN
       IF fault = "write" \/ id \notin DOMAIN projects
         THEN /\ SetReq(s, Catch(r, "error"))
              /\ UNCHANGED projects
         ELSE /\ projects' = [projects EXCEPT
                                ![id] = StoreUpdate(projects[id], ProjectUpdates(body))]
              /\ SetReq(s, Respond(r, 200, <<>>))
  /\ UNCHANGED <<deals, tasks, team_members, profit_share_status,
                 pay_status, pay_log, audit_log>>

(***************************************************************************)
(* Team members and profit-share status.                                   *)
(***************************************************************************)
\* isProfitSharePaid(memberId): some profit_share_status row of the member
\* has paid = true.
isProfitSharePaid_unpaid(memberId) ==
  \E row \in profit_share_status : row.member_id = memberId /\ ~row.paid

isProfitSharePaid(memberId) ==
  \E row \in profit_share_status : row.member_id = memberId /\ row.paid

validRoles == {"admin", "class_a", "class_b", "va"}

\* The salts bcrypt draws: a fresh one for each request that hashes a PIN.
Salts == <<"s1", "s2", "s3", "s4", "s5", "s6", "s7", "s8">>

\* bcrypt.hash(String(pin), 10): the hash holds its salt, so hashing the
\* same PIN again gives another value.
Hash(pin, salt) == <<"bcrypt", salt, pin>>

\* bcrypt.compare(String(pin), hash)
Compare(pin, hash) == hash = Hash(pin, hash[2])

TeamCols == [name |-> "name", role |-> "role",
             profitSharePct |-> "profit_share_pct", active |-> "active",
             authRole |-> "auth_role", pin |-> "pin_hash"]

\* The `updates` object of PATCH /api/team/:id (`if (req.body.pin)`: an
\* empty pin is not written).
TeamUpdates(body, salt) ==
  LET keys == {k \in DOMAIN TeamCols :
                 k \in DOMAIN body /\ (k = "pin" => body.pin # "")}
      keyOf(c) == CHOOSE k \in keys : TeamCols[k] = c
  IN [c \in {TeamCols[k] : k \in keys} |->
        IF c = "pin_hash" THEN Hash(body.pin, salt) ELSE body[keyOf(c)]]

\* The self-demotion guard of PATCH /api/team/:id.
SelfDemotion_never(id, body, user) == FALSE

SelfDemotion(id, body, user) ==
  /\ id = user.sub
  /\ "authRole" \in DOMAIN body
  /\ body.authRole # ""
  /\ body.authRole # "admin"

\* `validRoles.includes(req.body.authRole)` fails.
InvalidRole(body) == "authRole" \in DOMAIN body /\ body.authRole \notin validRoles

\* req.body.profitSharePct !== undefined
PctGuardApplies_validRoleOnly(body) ==
  "profitSharePct" \in DOMAIN body /\ ~InvalidRole(body)

PctGuardApplies(body) == "profitSharePct" \in DOMAIN body

\* current && current.profit_share_pct !== req.body.profitSharePct
PctDiffers_always(current, body) == current # Null

PctDiffers(current, body) ==
  current # Null /\ current.profit_share_pct # body.profitSharePct

\* The code between the profit-share guard and the second read of the
\* member: the updates are built and the role validated.
AfterPctGuard(r) ==
  IF InvalidRole(r.body)
    THEN Respond(r, 400, <<"Invalid role">>)
    ELSE Goto(r, "patch_team_read")

\* app.patch('/api/team/:id'): the middleware, the self-demotion guard and,
\* when the payload holds profitSharePct, the read of the member's
\* percentage and name.
PatchTeam(s, id, body, user, fault) ==
  /\ Free(s)
  /\ nreq' = nreq + 1
  /\ UNCHANGED tokens
  /\ LET r == NewReq("PATCH /api/team/:id", id, body, user, fault)
         current == SelectSingle(team_members, id)
     IN IF ~requireAdmin(user)
          THEN SetReq(s, Respond(r, 403, <<"Admin access required">>))
        ELSE IF SelfDemotion(id, body, user)
          THEN SetReq(s, Respond(r, 400, <<"You cannot remove your own admin access">>))
        ELSE IF PctGuardApplies(body) /\ PctDiffers(current, body)
          THEN SetReq(s, [Goto(r, "patch_team_paid") EXCEPT !.current = current])
        ELSE SetReq(s, AfterPctGuard(r))
  /\ UNCHANGED <<business, audit_log>>

\* isProfitSharePaid(id): the read of the member's paid profit-share rows.
PatchTeamPaid(s) ==
  /\ req[s].pc = "patch_team_paid"
  /\ LET r == req[s] IN
       IF isProfitSharePaid(r.id)
         THEN SetReq(s, Goto(r, "patch_team_blocked"))
         ELSE SetReq(s, AfterPctGuard(r))
  /\ UNCHANGED <<business, audit_log, nreq, tokens>>

\* The BLOCKED_PS_PCT_CHANGE audit row and the 403 naming the member.
PatchTeamBlocked(s) ==
  /\ req[s].pc = "patch_team_blocked"
  /\ AwaitAudit(s, "BLOCKED_PS_PCT_CHANGE", "team_members",
                [from |-> req[s].current.profit_share_pct,
                 to |-> req[s].body.profitSharePct,
                 reason |-> "profit share already paid out"],
                Respond(req[s], 403,
                        <<req[s].current.name, "'s profit share % is locked">>))
  /\ UNCHANGED <<business, nreq, tokens>>

\* The second read of the member, kept for the audit row.
PatchTeamRead(s) ==
  /\ req[s].pc = "patch_team_read"
  /\ SetReq(s, [Goto(req[s], "patch_team_update") EXCEPT
                  !.current = SelectSingle(team_members, req[s].id)])
  /\ UNCHANGED <<business, audit_log, nreq, tokens>>

\* The update.  The audit decision compares the payload with the row read
\* before the update; `current.profit_share_pct` on a row that was not found
\* then throws after the update has been stored.
PatchTeamUpdate(s) ==
  /\ req[s].pc = "patch_team_update"
  /\ LET r == req[s]
         updates == TeamUpdates(r.body, Salts[r.n])
     IN IF r.fault = "write" \/ r.id \notin DOMAIN team_members
          THEN /\ SetReq(s, Catch(r, "error"))
               /\ UNCHANGED team_members
          ELSE LET data == StoreUpdate(team_members[r.id], updates) IN
               /\ team_members' = [team_members EXCEPT ![r.id] = data]
               /\ IF "profit_share_pct" \notin DOMAIN updates
                    THEN SetReq(s, Respond(r, 200, <<>>))
                  ELSE IF r.current = Null
                    THEN SetReq(s, Catch(r, "TypeError"))
                  ELSE IF r.current.profit_share_pct # updates.profit_share_pct
                    THEN SetReq(s, [Goto(r, "patch_team_audit") EXCEPT
                                      !.changes = [name |-> data.name,
                                                   from |-> r.current.profit_share_pct,
                                                   to |-> updates.profit_share_pct]])
                  ELSE SetReq(s, Respond(r, 200, <<>>))
  /\ UNCHANGED <<deals, projects, tasks, profit_share_status, pay_status,
                 pay_log, audit_log, nreq, tokens>>

\* The EDIT_TEAM_PS_PCT audit row and the 200.
PatchTeamAudit(s) ==
  /\ req[s].pc = "patch_team_audit"
  /\ AwaitAudit(s, "EDIT_TEAM_PS_PCT", "team_members", req[s].changes,
                Respond(req[s], 200, <<>>))
  /\ UNCHANGED <<business, nreq, tokens>>

\* upsert(row, { onConflict: 'quarter_key,member_id' })
Upsert_insert(rows, row) == rows \cup {row}

Upsert(rows, row) ==
  {x \in rows : ~(x.quarter_key = row.quarter_key /\ x.member_id = row.member_id)}
    \cup {row}

\* app.post('/api/profit-share-status'): one store call;
\* profit_share_status.member_id references team_members.
PostProfitShareStatus(s, body, user, fault) ==
  /\ Free(s)
  /\ nreq' = nreq + 1
  /\ UNCHANGED tokens
  /\ LET r == NewReq("POST /api/profit-share-status", body.memberId, body, user, fault) IN
       IF ~requireAdmin(user)
         THEN /\ SetReq(s, Respond(r, 403, <<"Admin access required">>))
              /\ UNCHANGED profit_share_status
       ELSE IF fault = "write" \/ body.memberId \notin DOMAIN team_members
         THEN /\ SetReq(s, Catch(r, "error"))
              /\ UNCHANGED profit_share_status
       ELSE /\ profit_share_status' =
                 Upsert(profit_share_status,
                        [quarter_key |-> body.quarterKey,
                         member_id |-> body.memberId, paid |-> body.paid])
            /\ SetReq(s, Respond(r, 200, <<>>))
  /\ UNCHANGED <<deals, projects, tasks, team_members, pay_status, pay_log,
                 audit_log>>

(***************************************************************************)
(* Pay log.                                                                *)
(***************************************************************************)
\* The ids the store gives to inserted pay_log rows, one per request.
PayLogIds == <<"pl1", "pl2", "pl3", "pl4", "pl5", "pl6", "pl7", "pl8">>

PayLogTextCols == [memberName |-> "member_name", projectId |-> "project_id",
                   projectName |-> "project_name", dealId |-> "deal_id",
                   dealName |-> "deal_name", quarterKey |-> "quarter_key",
                   sourceKey |-> "source_key", notes |-> "notes"]

\* The row POST /api/pay-log inserts.
PayLogRow(body, user) ==
  LET text(k) == IF k \in DOMAIN body THEN OrStr(body[k], NullText) ELSE NullText
  IN [member_id |-> body.memberId, member_name |-> text("memberName"),
      pay_type |-> body.payType, amount |-> body.amount,
      project_id |-> text("projectId"), project_name |-> text("projectName"),
      deal_id |-> text("dealId"), deal_name |-> text("dealName"),
      quarter_key |-> text("quarterKey"), source_key |-> text("sourceKey"),
      notes |-> text("notes"),
      created_by_id |-> user.sub, created_by_name |-> user.name,
      is_manual |-> IF "isManual" \in DOMAIN body THEN body.isManual ELSE FALSE]

\* !memberId || !payType || amount === undefined
PayLogInvalid_falsyAmount(body) ==
  \/ "memberId" \notin DOMAIN body \/ body.memberId = ""
  \/ "payType" \notin DOMAIN body \/ body.payType = ""
  \/ "amount" \notin DOMAIN body \/ body.amount = 0

PayLogInvalid(body) ==
  \/ "memberId" \notin DOMAIN body \/ body.memberId = ""
  \/ "payType" \notin DOMAIN body \/ body.payType = ""
  \/ "amount" \notin DOMAIN body

\* app.post('/api/pay-log'): the middleware, the validation and the insert.
PostPayLog(s, body, user, fault) ==
  /\ Free(s)
  /\ nreq' = nreq + 1
  /\ UNCHANGED tokens
  /\ LET r == NewReq("POST /api/pay-log", "", body, user, fault) IN
       IF ~requireAdmin(user)
         THEN /\ SetReq(s, Respond(r, 403, <<"Admin access required">>))
              /\ UNCHANGED pay_log
       ELSE IF PayLogInvalid(body)
         THEN /\ SetReq(s, Respond(r, 400, <<"memberId, payType, and amount are required">>))
              /\ UNCHANGED pay_log
       ELSE IF fault = "write"
         THEN /\ SetReq(s, Catch(r, "error"))
              /\ UNCHANGED pay_log
       ELSE LET id == PayLogIds[nreq + 1]
                data == PayLogRow(body, user)
            IN /\ pay_log' = (id :> data) @@ pay_log
               /\ SetReq(s, [Goto(r, "post_pay_log_audit") EXCEPT
                               !.id = id, !.current = data])
  /\ UNCHANGED <<deals, projects, tasks, team_members, profit_share_status,
                 pay_status, audit_log>>

\* The PAY_LOG_ENTRY audit row and the 201 ({ member: undefined } drops the
\* key when the body has no memberName).
PostPayLogAudit(s) ==
  /\ req[s].pc = "post_pay_log_audit"
  /\ LET b == req[s].body
         rest == [type |-> b.payType, amount |-> b.amount,
                  isManual |-> IF "isManual" \in DOMAIN b THEN b.isManual ELSE FALSE]
     IN AwaitAudit(s, "PAY_LOG_ENTRY", "pay_log",
                   IF "memberName" \in DOMAIN b
                     THEN [member |-> b.memberName] @@ rest ELSE rest,
                   Respond(req[s], 201, <<>>))
  /\ UNCHANGED <<business, nreq, tokens>>

\* The guard of DELETE /api/pay-log/:id: entry && !entry.is_manual
AutoEntry_inverted(entry) == entry # Null /\ entry.is_manual

AutoEntry(entry) == entry # Null /\ ~entry.is_manual

\* app.delete('/api/pay-log/:id'): the middleware and the read of the entry.
DeletePayLog(s, id, user, fault) ==
  /\ Free(s)
  /\ nreq' = nreq + 1
  /\ UNCHANGED tokens
  /\ LET r == NewReq("DELETE /api/pay-log/:id", id, NoBody, user, fault) IN
       IF ~requireAdmin(user)
         THEN SetReq(s, Respond(r, 403, <<"Admin access required">>))
       ELSE LET entry == IF id \in DOMAIN pay_log THEN pay_log[id] ELSE Null IN
         IF AutoEntry(entry)
           THEN SetReq(s, [Respond(r, 403, <<"Auto-generated pay log entries cannot be deleted.">>)
                             EXCEPT !.current = entry])
           ELSE SetReq(s, [Goto(r, "delete_pay_log_audit") EXCEPT !.current = entry])
  /\ UNCHANGED <<business, audit_log>>

\* The DELETE_PAY_LOG audit row, written before the delete.
DeletePayLogAudit(s) ==
  /\ req[s].pc = "delete_pay_log_audit"
  /\ AwaitAudit(s, "DELETE_PAY_LOG", "pay_log",
                IF req[s].current = Null THEN NoBody
                ELSE [member |-> req[s].current.member_name,
                      amount |-> req[s].current.amount],
                Goto(req[s], "delete_pay_log_delete"))
  /\ UNCHANGED <<business, nreq, tokens>>

\* The delete.
DeletePayLogDelete(s) ==
  /\ req[s].pc = "delete_pay_log_delete"
  /\ LET r == req[s] IN
       IF r.fault = "write"
         THEN /\ SetReq(s, Catch(r, "error"))
              /\ UNCHANGED pay_log
         ELSE /\ pay_log' = StoreDelete(pay_log, r.id)
              /\ SetReq(s, Respond(r, 200, <<>>))
  /\ UNCHANGED <<deals, projects, tasks, team_members, profit_share_status,
                 pay_status, audit_log, nreq, tokens>>

(***************************************************************************)
(* The handlers that create rows, delete a member, toggle a pay status and *)
(* read the audit log.                                                     *)
(***************************************************************************)
\* The ids the store gives to inserted deals and members, one per request.
DealNewIds == <<"dn1", "dn2", "dn3", "dn4", "dn5", "dn6", "dn7", "dn8">>
TeamNewIds == <<"mn1", "mn2", "mn3", "mn4", "mn5", "mn6", "mn7", "mn8">>

\* The column defaults of the deals table.
DealColumnDefaults ==
  [name |-> NullText, client |-> "", value |-> 0, expenses |-> 0,
   stage |-> "Lead", owner |-> "", close_date |-> NullText,
   invoice_status |-> "none", amount_collected |-> 0, buckets |-> <<>>,
   prob |-> 0]

\* app.post('/api/deals'): one store call; deals.name is NOT NULL.
PostDeal(s, body, user, fault) ==
  /\ Free(s)
  /\ nreq' = nreq + 1
  /\ UNCHANGED tokens
  /\ LET r == NewReq("POST /api/deals", "", body, user, fault) IN
       IF ~requireAdmin(user)
         THEN /\ SetReq(s, Respond(r, 403, <<"Admin access required">>))
              /\ UNCHANGED deals
       ELSE IF fault = "write" \/ "name" \notin DOMAIN body
         THEN /\ SetReq(s, Catch(r, "error"))
              /\ UNCHANGED deals
       ELSE LET id == DealNewIds[nreq + 1] IN
            /\ deals' = (id :> StoreUpdate(DealColumnDefaults, dealToRow(body, FALSE)))
                          @@ deals
            /\ SetReq(s, [Respond(r, 201, <<>>) EXCEPT !.id = id])
  /\ UNCHANGED <<projects, tasks, team_members, profit_share_status,
                 pay_status, pay_log, audit_log>>

\* The row POST /api/team inserts: auth_role is the literal 'member'.
TeamRow(body, salt) ==
  LET has(k) == k \in DOMAIN body IN
  [name |-> body.name,
   role |-> IF has("role") THEN body.role ELSE "",
   profit_share_pct |-> IF has("profitSharePct") THEN body.profitSharePct ELSE 0,
   active |-> IF has("active") THEN body.active ELSE TRUE,
   color |-> IF has("color") THEN OrStr(body.color, "#c9a84c") ELSE "#c9a84c",
   auth_role |-> "member",
   pin_hash |-> Hash(body.pin, salt)]

\* app.post('/api/team'): the PIN check and the insert; team_members.name
\* is NOT NULL.
PostTeam(s, body, user, fault) ==
  /\ Free(s)
  /\ nreq' = nreq + 1
  /\ UNCHANGED tokens
  /\ LET r == NewReq("POST /api/team", "", body, user, fault) IN
       IF ~requireAdmin(user)
         THEN /\ SetReq(s, Respond(r, 403, <<"Admin access required">>))
              /\ UNCHANGED team_members
       ELSE IF "pin" \notin DOMAIN body \/ body.pin = ""
         THEN /\ SetReq(s, Respond(r, 400, <<"PIN is required for new members">>))
              /\ UNCHANGED team_members
       ELSE IF fault = "write" \/ "name" \notin DOMAIN body
         THEN /\ SetReq(s, Catch(r, "error"))
              /\ UNCHANGED team_members
       ELSE LET id == TeamNewIds[nreq + 1] IN
            /\ team_members' = (id :> TeamRow(body, Salts[nreq + 1])) @@ team_members
            /\ SetReq(s, [Respond(r, 201, <<>>) EXCEPT !.id = id])
  /\ UNCHANGED <<deals, projects, tasks, profit_share_status, pay_status,
                 pay_log, audit_log>>

\* app.post('/api/auth/login'): no middleware; the check of the body and
\* the read of the member.
Login(s, body) ==
  /\ Free(s)
  /\ nreq' = nreq + 1
  /\ UNCHANGED tokens
  /\ LET r == NewReq("POST /api/auth/login", Field(body, "memberId", ""), body,
                     IdleReq.user, "none")
         given(k) == k \in DOMAIN body /\ body[k] # ""
     IN IF ~(given("memberId") /\ given("pin"))
          THEN SetReq(s, Respond(r, 400, <<"memberId and pin required">>))
        ELSE LET member == SelectSingle(team_members, body.memberId) IN
          IF member = Null
            THEN SetReq(s, Respond(r, 401, <<"Member not found">>))
          ELSE IF ~member.active
            THEN SetReq(s, Respond(r, 403, <<"Account is inactive">>))
          ELSE SetReq(s, [Goto(r, "login_compare") EXCEPT !.current = member])
  /\ UNCHANGED <<business, audit_log>>

\* The PIN comparison and the token, signed from the member as it was read.
LoginCompare(s) ==
  /\ req[s].pc = "login_compare"
  /\ LET r == req[s] IN
       IF ~Compare(r.body.pin, r.current.pin_hash)
         THEN /\ SetReq(s, Respond(r, 401, <<"Incorrect PIN">>))
              /\ UNCHANGED tokens
         ELSE /\ tokens' = tokens \cup {signToken(r.id, r.current)}
              /\ SetReq(s, Respond(r, 200, <<>>))
  /\ UNCHANGED <<business, audit_log, nreq>>

\* The self-deletion guard of DELETE /api/team/:id.
SelfDeletion_never(id, user) == FALSE

SelfDeletion(id, user) == id = user.sub

\* app.delete('/api/team/:id'): one store call; tasks.assignee_id is ON
\* DELETE SET NULL, profit_share_status.member_id ON DELETE CASCADE.
DeleteTeam(s, id, user, fault) ==
  /\ Free(s)
  /\ nreq' = nreq + 1
  /\ UNCHANGED tokens
  /\ LET r == NewReq("DELETE /api/team/:id", id, NoBody, user, fault) IN
       IF ~requireAdmin(user)
         THEN /\ SetReq(s, Respond(r, 403, <<"Admin access required">>))
              /\ UNCHANGED <<team_members, tasks, profit_share_status>>
       ELSE IF SelfDeletion(id, user)
         THEN /\ SetReq(s, Respond(r, 400, <<"You cannot remove yourself">>))
              /\ UNCHANGED <<team_members, tasks, profit_share_status>>
       ELSE IF fault = "write"
         THEN /\ SetReq(s, Catch(r, "error"))
              /\ UNCHANGED <<team_members, tasks, profit_share_status>>
       ELSE /\ team_members' = StoreDelete(team_members, id)
            /\ tasks' = [t \in DOMAIN tasks |->
                           IF tasks[t].assignee_id = id
                             THEN [tasks[t] EXCEPT !.assignee_id = NullText]
                             ELSE tasks[t]]
            /\ profit_share_status' =
                 {row \in profit_share_status : row.member_id # id}
            /\ SetReq(s, Respond(r, 200, <<>>))
  /\ UNCHANGED <<deals, projects, pay_status, pay_log, audit_log>>

\* `${projectId}_${memberId}`
PayKey(projectId, memberId) == projectId \o "_" \o memberId

\* upsert(row, { onConflict: 'pay_key' })
UpsertPayKey(rows, row) == {x \in rows : x.pay_key # row.pay_key} \cup {row}

\* app.post('/api/pay-status'): one store call.
PostPayStatus(s, body, user, fault) ==
  /\ Free(s)
  /\ nreq' = nreq + 1
  /\ UNCHANGED tokens
  /\ LET r == NewReq("POST /api/pay-status", PayKey(body.projectId, body.memberId),
                     body, user, fault) IN
       IF ~requireAdmin(user)
         THEN /\ SetReq(s, Respond(r, 403, <<"Admin access required">>))
              /\ UNCHANGED pay_status
       ELSE IF fault = "write"
         THEN /\ SetReq(s, Catch(r, "error"))
              /\ UNCHANGED pay_status
       ELSE /\ pay_status' =
                 UpsertPayKey(pay_status,
                              [pay_key |-> PayKey(body.projectId, body.memberId),
                               paid |-> body.paid])
            /\ SetReq(s, Respond(r, 200, <<>>))
  /\ UNCHANGED <<deals, projects, tasks, team_members, profit_share_status,
                 pay_log, audit_log>>

\* .order('created_at', { ascending: false }).limit(200)
AuditLogLimit == 200

Newest(log, n) ==
  [i \in 1..(IF Len(log) < n THEN Len(log) ELSE n) |-> log[Len(log) + 1 - i]]

\* app.get('/api/audit-log'): one read; the rows answered are kept in
\* `current`.
GetAuditLog(s, user, fault) ==
  /\ Free(s)
  /\ nreq' = nreq + 1
  /\ UNCHANGED tokens
  /\ LET r == NewReq("GET /api/audit-log", "", NoBody, user, fault) IN
       IF ~requireAdmin(user)
         THEN SetReq(s, Respond(r, 403, <<"Admin access required">>))
       ELSE IF fault = "write"
         THEN SetReq(s, Catch(r, "error"))
       ELSE SetReq(s, [Respond(r, 200, <<>>) EXCEPT
                         !.current = Newest(audit_log, AuditLogLimit)])
  /\ UNCHANGED <<business, audit_log>>

(***************************************************************************)
(* The stored data the behaviours start from, and the callers.             *)
(***************************************************************************)
Kyle   == [sub |-> "m1", name |-> "Kyle Harries", role |-> "admin"]
Nathan == [sub |-> "m2", name |-> "Nathan Blumberg", role |-> "class_a"]
Blaise == [sub |-> "m3", name |-> "Blaise Freeman", role |-> "va"]

Deal0(status) ==
  [name |-> "Acme rebrand", client |-> "Acme", value |-> 1000, expenses |-> 0,
   stage |-> "Proposal", owner |-> "Kyle", close_date |-> NullText,
   invoice_status |-> status, amount_collected |-> 0, buckets |-> <<>>,
   prob |-> 0]

Project0(status, dealId) ==
  [name |-> "Rebrand", client |-> "Acme", deal_id |-> dealId,
   start_date |-> NullText, end_date |-> NullText, status |-> status,
   archived |-> FALSE]

Task0(projectId) ==
  [title |-> "Logo", project_id |-> projectId, assignee_id |-> "m2",
   due_date |-> NullText, priority |-> "med", status |-> "todo",
   est_hours |-> 5]

Member0(name, role, authRole, color, pct, pinHash) ==
  [name |-> name, role |-> role, color |-> color, profit_share_pct |-> pct,
   active |-> TRUE, auth_role |-> authRole, pin_hash |-> pinHash]

\* A hash literal of the seed: it has its salt, and no PIN a request
\* carries compares equal to it (the PINs the seed names included).
SeedHash(salt) == <<"bcrypt", salt, "?">>

\* The seeded team.
Team0 ==
  ("m1" :> Member0("Kyle Harries", "Creative Director", "admin", "#c9a84c", 40,
                   SeedHash("LQv3c1yqBWVHxkd0LHAkCO")))
    @@ ("m2" :> Member0("Nathan Blumberg", "Lead Designer", "member", "#4caf7a", 35,
                        SeedHash("8K3t7pDI1dKYvKHCBSb2Xu")))
    @@ ("m3" :> Member0("Blaise Freeman", "Copywriter", "member", "#5a8fd4", 25,
                        SeedHash("92IXUNpkjO0rOQ5byMi.Ye")))

\* The team the behaviours start from: the seeded members once the
\* operator has stored hashes of their PINs (the seed's note: generate your
\* own) and Nathan and Blaise have been given a role.
TeamWithRoles ==
  [Team0 EXCEPT !["m1"].pin_hash = Hash("1234", "s0"),
                !["m2"].pin_hash = Hash("5678", "s0"),
                !["m2"].auth_role = "class_a",
                !["m3"].pin_hash = Hash("9012", "s0"),
                !["m3"].auth_role = "va"]

PayLogEntry0(isManual) ==
  [PayLogRow([memberId |-> "m2", memberName |-> "Nathan Blumberg",
              payType |-> "production", amount |-> 500], Kyle)
     EXCEPT !.is_manual = isManual]

PayLog0 == ("auto1" :> PayLogEntry0(FALSE)) @@ ("manual1" :> PayLogEntry0(TRUE))

Slots == {1, 2}

\* One deal, its project and a task of it, the team with its roles, an
\* automatic and a manual pay-log entry; every member has logged in.
InitBase(slots, invoiceStatus, projectStatus, projectDeal, psRows) ==
  /\ deals = ("d1" :> Deal0(invoiceStatus))
  /\ projects = ("p1" :> Project0(projectStatus, projectDeal))
  /\ tasks = ("t1" :> Task0("p1"))
  /\ team_members = TeamWithRoles
  /\ tokens = TokensOf(TeamWithRoles)
  /\ profit_share_status = psRows
  /\ pay_status = {}
  /\ pay_log = PayLog0
  /\ audit_log = <<>>
  /\ req = [s \in slots |-> IdleReq]
  /\ nreq = 0

\* A request may arrive while fewer than `quota` requests have.
Admit(quota) == nreq < quota

(***************************************************************************)
(* The deal handlers, one request at a time.                               *)
(***************************************************************************)
DealIds == {"d1", "d2"}

DealBodies ==
  { [value |-> 3000], [prob |-> 50], [buckets |-> <<60, 40>>],
    [invoiceStatus |-> "paid"], [invoiceStatus |-> "sent"], [invoiceStatus |-> ""],
    [stage |-> "Closed Won"],
    [value |-> 3000, invoiceStatus |-> "sent"],
    [invoiceStatus |-> "paid", value |-> 1000] }

DealCallers ==
  { [user |-> Kyle, fault |-> "none"], [user |-> Kyle, fault |-> "audit"],
    [user |-> Kyle, fault |-> "write"], [user |-> Nathan, fault |-> "none"] }

InitDeal ==
  \E st \in {"none", "paid"} : InitBase({1}, st, "active", "d1", {})

NextDeal ==
  \/ \E id \in DealIds, body \in DealBodies, c \in DealCallers :
       Admit(MaxReqs) /\ PatchDeal(1, id, body, c.user, c.fault)
  \/ \E id \in DealIds, c \in DealCallers :
       Admit(MaxReqs) /\ DeleteDeal(1, id, c.user, c.fault)
  \/ PatchDealBlocked(1)
  \/ PatchDealUpdate(1)
  \/ PatchDealAudit(1)
  \/ DeleteDealBlocked(1)
  \/ DeleteDealAudit(1)
  \/ DeleteDealDelete(1)

SpecDeal == InitDeal /\ [][NextDeal]_vars

(***************************************************************************)
(* The scenario of PATCH /deals/:id requests on one deal, by an admin,     *)
(* with a working store: edits of value and locks and unlocks.             *)
(***************************************************************************)
SeqBodies ==
  { [value |-> 2000], [value |-> 3000],
    [invoiceStatus |-> "paid"], [invoiceStatus |-> "sent"] }

InitDealSeq == InitBase({1}, "none", "active", "d1", {})

NextDealSeq ==
  \/ \E body \in SeqBodies :
       Admit(MaxSeqReqs) /\ PatchDeal(1, "d1", body, Kyle, "none")
  \/ PatchDealBlocked(1)
  \/ PatchDealUpdate(1)
  \/ PatchDealAudit(1)

SpecDealSeq == InitDealSeq /\ [][NextDealSeq]_vars

(***************************************************************************)
(* Two PATCH /deals/:id requests in flight on the same deal.               *)
(***************************************************************************)
ConcBodies ==
  { [value |-> 2000], [value |-> 3000], [prob |-> 50], [invoiceStatus |-> "paid"],
    [invoiceStatus |-> "sent"] }

InitDealConc == InitBase(Slots, "sent", "active", "d1", {})

NextDealConc ==
  \/ \E s \in Slots, body \in ConcBodies :
       Admit(MaxConcReqs) /\ PatchDeal(s, "d1", body, Kyle, "none")
  \/ \E s \in Slots : PatchDealBlocked(s)
  \/ \E s \in Slots : PatchDealUpdate(s)
  \/ \E s \in Slots : PatchDealAudit(s)

SpecDealConc == InitDealConc /\ [][NextDealConc]_vars

(***************************************************************************)
(* The task handler, one request at a time, with the project complete or   *)
(* not, linked to the deal or not, and the deal paid or not.               *)
(***************************************************************************)
TaskIds == {"t1", "t2"}

TaskBodies ==
  { [estHours |-> 8], [estHours |-> 0], [status |-> "done"],
    [estHours |-> 8, status |-> "done"], [title |-> "Logo v2"] }

ProjectBodies == { [status |-> "complete"], [status |-> "active"] }

NewProjectBodies ==
  { [name |-> "Second", client |-> "Acme", dealId |-> "d1", status |-> "complete"],
    [client |-> "Acme"] }

TaskCallers ==
  { [user |-> Blaise, fault |-> "none"], [user |-> Kyle, fault |-> "none"],
    [user |-> Kyle, fault |-> "audit"], [user |-> Kyle, fault |-> "write"] }

InitTask ==
  \E st \in {"sent", "paid"}, ps \in {"active", "complete"},
     pd \in {"d1", NullText} : InitBase({1}, st, ps, pd, {})

NextTask ==
  \/ \E id \in TaskIds, body \in TaskBodies, c \in TaskCallers :
       Admit(MaxReqs) /\ PatchTask(1, id, body, c.user, c.fault)
  \/ \E body \in ProjectBodies, c \in TaskCallers :
       Admit(MaxReqs) /\ PatchProject(1, "p1", body, c.user, c.fault)
  \/ \E body \in NewProjectBodies, c \in TaskCallers :
       Admit(MaxReqs) /\ PostProject(1, body, c.user, c.fault)
  \/ PatchTaskProject(1)
  \/ PatchTaskDeal(1)
  \/ PatchTaskBlocked(1)
  \/ PatchTaskUpdate(1)

SpecTask == InitTask /\ [][NextTask]_vars

(***************************************************************************)
(* The team-member handler and the profit-share toggle, one request at a   *)
(* time, with no profit-share row, an unpaid one or a paid one.            *)
(***************************************************************************)
PsRow(quarterKey, memberId, paid) ==
  [quarter_key |-> quarterKey, member_id |-> memberId, paid |-> paid]

TeamIds == {"m2", "m4"}

TeamBodies ==
  { [profitSharePct |-> 30], [profitSharePct |-> 35], [name |-> "Nate"],
    [name |-> "Nate", profitSharePct |-> 40], [authRole |-> "class_b"],
    [authRole |-> "owner"], [authRole |-> "owner", profitSharePct |-> 30],
    [pin |-> "9999"] }

PsBodies ==
  { [quarterKey |-> q, memberId |-> "m2", paid |-> b] :
      q \in {"Q1-2025", "Q2-2025"}, b \in BOOLEAN }

TeamCallers ==
  { [user |-> Kyle, fault |-> "none"], [user |-> Kyle, fault |-> "audit"],
    [user |-> Kyle, fault |-> "write"], [user |-> Nathan, fault |-> "none"] }

InitTeam ==
  \E rows \in { {}, {PsRow("Q1-2025", "m2", FALSE)}, {PsRow("Q1-2025", "m2", TRUE)} } :
    InitBase({1}, "none", "active", "d1", rows)

NextTeam ==
  \/ \E id \in TeamIds, body \in TeamBodies, c \in TeamCallers :
       Admit(MaxReqs) /\ PatchTeam(1, id, body, c.user, c.fault)
  \/ \E body \in PsBodies, c \in TeamCallers :
       Admit(MaxReqs) /\ PostProfitShareStatus(1, body, c.user, c.fault)
  \/ PatchTeamPaid(1)
  \/ PatchTeamBlocked(1)
  \/ PatchTeamRead(1)
  \/ PatchTeamUpdate(1)
  \/ PatchTeamAudit(1)

SpecTeam == InitTeam /\ [][NextTeam]_vars

(***************************************************************************)
(* The scenario of profit-share toggles and percentage changes of one      *)
(* member, by an admin, with a working store.                              *)
(***************************************************************************)
SeqPctBodies == { [profitSharePct |-> 30], [profitSharePct |-> 40] }

InitTeamSeq ==
  InitBase({1}, "none", "active", "d1", {PsRow("Q1-2025", "m2", FALSE)})

NextTeamSeq ==
  \/ \E body \in SeqPctBodies :
       Admit(MaxSeqReqs) /\ PatchTeam(1, "m2", body, Kyle, "none")
  \/ \E body \in PsBodies :
       Admit(MaxSeqReqs) /\ PostProfitShareStatus(1, body, Kyle, "none")
  \/ PatchTeamPaid(1)
  \/ PatchTeamBlocked(1)
  \/ PatchTeamRead(1)
  \/ PatchTeamUpdate(1)
  \/ PatchTeamAudit(1)

SpecTeamSeq == InitTeamSeq /\ [][NextTeamSeq]_vars

(***************************************************************************)
(* The team handlers on the roles, one request at a time.  NathanAdmin is  *)
(* the token Nathan gets by logging in while stored as an admin.           *)
(***************************************************************************)
NathanAdmin == [sub |-> "m2", name |-> "Nathan Blumberg", role |-> "admin"]

RoleBodies ==
  { [authRole |-> "class_a"], [authRole |-> "admin"], [authRole |-> ""],
    [authRole |-> "owner"], [authRole |-> "va", name |-> "K"], [name |-> "K"] }

NewMemberBodies ==
  { [name |-> "Dana", pin |-> "4321"], [name |-> "Dana"],
    [name |-> "Dana", pin |-> "4321", role |-> "Designer", profitSharePct |-> 10] }

RoleCallers ==
  { [user |-> Kyle, fault |-> "none"], [user |-> Kyle, fault |-> "write"],
    [user |-> Nathan, fault |-> "none"], [user |-> NathanAdmin, fault |-> "none"] }

\* Nathan's right PIN and a wrong one.
LoginBodies == { [memberId |-> "m2", pin |-> "5678"], [memberId |-> "m2", pin |-> "0000"] }

InitRole == InitBase({1}, "none", "active", "d1", {})

NextRole ==
  \/ \E id \in {"m1", "m2"}, body \in RoleBodies, c \in RoleCallers :
       Admit(MaxReqs) /\ c.user \in tokens /\ PatchTeam(1, id, body, c.user, c.fault)
  \/ \E body \in NewMemberBodies, c \in RoleCallers :
       Admit(MaxReqs) /\ c.user \in tokens /\ PostTeam(1, body, c.user, c.fault)
  \/ \E id \in {"m1", "m2"}, c \in RoleCallers :
       Admit(MaxReqs) /\ c.user \in tokens /\ DeleteTeam(1, id, c.user, c.fault)
  \/ \E body \in LoginBodies : Admit(MaxReqs) /\ Login(1, body)
  \/ LoginCompare(1)
  \/ PatchTeamRead(1)
  \/ PatchTeamUpdate(1)

SpecRole == InitRole /\ [][NextRole]_vars

(***************************************************************************)
(* The pay-log handlers, one request at a time.                            *)
(***************************************************************************)
PayLogBodies ==
  { [memberId |-> "m2", memberName |-> "Nathan Blumberg", payType |-> "bonus",
     amount |-> 200, isManual |-> TRUE],
    [memberId |-> "m2", payType |-> "profit_share", amount |-> 0,
     quarterKey |-> "Q1-2025"],
    [memberId |-> "m3", payType |-> "production", amount |-> -50, isManual |-> FALSE],
    [payType |-> "bonus", amount |-> 200],
    [memberId |-> "m2", amount |-> 200],
    [memberId |-> "m2", payType |-> "bonus"] }

PayLogDeleteIds == {"auto1", "manual1", "pl1", "pl2", "pl9"}

PayCallers ==
  { [user |-> Kyle, fault |-> "none"], [user |-> Kyle, fault |-> "audit"],
    [user |-> Kyle, fault |-> "write"], [user |-> Nathan, fault |-> "none"] }

PayStatusBodies ==
  { [projectId |-> "p1", memberId |-> "m2", paid |-> b] : b \in BOOLEAN }

PayPsBodies ==
  { [quarterKey |-> "Q1-2025", memberId |-> "m2", paid |-> b] : b \in BOOLEAN }

InitPay == InitBase({1}, "none", "active", "d1", {})

NextPay ==
  \/ \E body \in PayLogBodies, c \in PayCallers :
       Admit(MaxReqs) /\ PostPayLog(1, body, c.user, c.fault)
  \/ \E id \in PayLogDeleteIds, c \in PayCallers :
       Admit(MaxReqs) /\ DeletePayLog(1, id, c.user, c.fault)
  \/ \E body \in PayStatusBodies, c \in PayCallers :
       Admit(MaxReqs) /\ PostPayStatus(1, body, c.user, c.fault)
  \/ \E body \in PayPsBodies, c \in PayCallers :
       Admit(MaxReqs) /\ PostProfitShareStatus(1, body, c.user, c.fault)
  \/ PostPayLogAudit(1)
  \/ DeletePayLogAudit(1)
  \/ DeletePayLogDelete(1)

SpecPay == InitPay /\ [][NextPay]_vars

(***************************************************************************)
(* Every handler that writes the audit log, one request at a time, from a  *)
(* store in which the locks are set or not.                                *)
(***************************************************************************)
AllCallers ==
  { [user |-> Kyle, fault |-> "none"], [user |-> Kyle, fault |-> "audit"],
    [user |-> Kyle, fault |-> "write"] }

\* A percentage change of another member and a demotion of the caller.
AllTeamPatches ==
  { [id |-> "m2", body |-> [profitSharePct |-> 30]],
    [id |-> "m2", body |-> [profitSharePct |-> 30, name |-> "Nate", role |-> "Lead",
                            active |-> FALSE, authRole |-> "class_b", pin |-> "9999"]],
    [id |-> "m1", body |-> [authRole |-> "class_a"]] }

\* Payloads with one column and payloads mixing locked and unlocked columns.
AllDealBodies ==
  { [value |-> 3000], [invoiceStatus |-> "sent"],
    [value |-> 3000, stage |-> "Closed Won", invoiceStatus |-> "sent"] }

AllTaskBodies == { [estHours |-> 8], [estHours |-> 8, status |-> "done", title |-> "Mark"] }

InitAll ==
  \E st \in {"sent", "paid"},
     rows \in { {}, {PsRow("Q1-2025", "m2", TRUE)} } :
    InitBase({1}, st, "complete", "d1", rows)

NextAll ==
  \/ \E body \in AllDealBodies, c \in AllCallers :
       Admit(MaxAllReqs) /\ PatchDeal(1, "d1", body, c.user, c.fault)
  \/ \E c \in AllCallers :
       Admit(MaxAllReqs) /\ DeleteDeal(1, "d1", c.user, c.fault)
  \/ \E body \in AllTaskBodies, c \in AllCallers :
       Admit(MaxAllReqs) /\ PatchTask(1, "t1", body, c.user, c.fault)
  \/ \E t \in AllTeamPatches, c \in AllCallers :
       Admit(MaxAllReqs) /\ PatchTeam(1, t.id, t.body, c.user, c.fault)
  \/ \E id \in {"m1", "m3"}, c \in AllCallers :
       Admit(MaxAllReqs) /\ DeleteTeam(1, id, c.user, c.fault)
  \/ \E c \in AllCallers :
       Admit(MaxAllReqs) /\ GetAuditLog(1, c.user, c.fault)
  \/ \E c \in AllCallers :
       Admit(MaxAllReqs)
         /\ PostPayLog(1, [memberId |-> "m2", payType |-> "bonus", amount |-> 200,
                           isManual |-> TRUE], c.user, c.fault)
  \/ \E id \in {"auto1", "manual1"}, c \in AllCallers :
       Admit(MaxAllReqs) /\ DeletePayLog(1, id, c.user, c.fault)
  \/ PatchDealBlocked(1)
  \/ PatchDealUpdate(1)
  \/ PatchDealAudit(1)
  \/ DeleteDealBlocked(1)
  \/ DeleteDealAudit(1)
  \/ DeleteDealDelete(1)
  \/ PatchTaskProject(1)
  \/ PatchTaskDeal(1)
  \/ PatchTaskBlocked(1)
  \/ PatchTaskUpdate(1)
  \/ PatchTeamPaid(1)
  \/ PatchTeamBlocked(1)
  \/ PatchTeamRead(1)
  \/ PatchTeamUpdate(1)
  \/ PatchTeamAudit(1)
  \/ PostPayLogAudit(1)
  \/ DeletePayLogAudit(1)
  \/ DeletePayLogDelete(1)

SpecAll == InitAll /\ [][NextAll]_vars

(***************************************************************************)
(* Every route behind requireAdmin or requireCanDelete, called by an       *)
(* admin, a class_a member and a va member, one request at a time.         *)
(***************************************************************************)
AuthCallers == {Kyle, Nathan, Blaise}

InitAuth ==
  InitBase({1}, "paid", "complete", "d1", {PsRow("Q1-2025", "m2", TRUE)})

NextAuth ==
  \/ \E u \in AuthCallers :
       Admit(MaxAllReqs) /\ PostDeal(1, [name |-> "Beta site", value |-> 500], u, "none")
  \/ \E body \in {[value |-> 3000], [invoiceStatus |-> "sent"]}, u \in AuthCallers :
       Admit(MaxAllReqs) /\ PatchDeal(1, "d1", body, u, "none")
  \/ \E u \in AuthCallers :
       Admit(MaxAllReqs) /\ DeleteDeal(1, "d1", u, "none")
  \/ \E u \in AuthCallers :
       Admit(MaxAllReqs) /\ PostTeam(1, [name |-> "Dana", pin |-> "4321"], u, "none")
  \/ \E body \in {[profitSharePct |-> 30], [authRole |-> "admin"]}, u \in AuthCallers :
       Admit(MaxAllReqs) /\ PatchTeam(1, "m2", body, u, "none")
  \/ \E u \in AuthCallers :
       Admit(MaxAllReqs) /\ DeleteTeam(1, "m3", u, "none")
  \/ \E u \in AuthCallers :
       Admit(MaxAllReqs)
         /\ PostPayStatus(1, [projectId |-> "p1", memberId |-> "m2", paid |-> TRUE],
                          u, "none")
  \/ \E u \in AuthCallers :
       Admit(MaxAllReqs)
         /\ PostProfitShareStatus(1, [quarterKey |-> "Q1-2025", memberId |-> "m2",
                                      paid |-> FALSE], u, "none")
  \/ \E u \in AuthCallers :
       Admit(MaxAllReqs)
         /\ PostPayLog(1, [memberId |-> "m2", payType |-> "bonus", amount |-> 200,
                           isManual |-> TRUE], u, "none")
  \/ \E u \in AuthCallers :
       Admit(MaxAllReqs) /\ DeletePayLog(1, "manual1", u, "none")
  \/ PatchDealBlocked(1)
  \/ PatchDealUpdate(1)
  \/ PatchDealAudit(1)
  \/ DeleteDealBlocked(1)
  \/ DeleteDealAudit(1)
  \/ DeleteDealDelete(1)
  \/ PatchTeamPaid(1)
  \/ PatchTeamBlocked(1)
  \/ PatchTeamRead(1)
  \/ PatchTeamUpdate(1)
  \/ PatchTeamAudit(1)
  \/ PostPayLogAudit(1)
  \/ DeletePayLogAudit(1)
  \/ DeletePayLogDelete(1)

SpecAuth == InitAuth /\ [][NextAuth]_vars

(***************************************************************************)
(* What the properties read of a finished request.                         *)
(***************************************************************************)
PATCH_DEAL == "PATCH /api/deals/:id"
DELETE_DEAL == "DELETE /api/deals/:id"

Done(r) == r.pc = "done"

\* The audit rows recorded since the request arrived.
NewAudit(r) == SubSeq(audit_log, r.preAudit + 1, Len(audit_log))

\* The request recorded exactly one audit row, with this action about it.
OneAuditRow(r, action, tableName) ==
  /\ Len(NewAudit(r)) = 1
  /\ NewAudit(r)[1].action = action
  /\ NewAudit(r)[1].table_name = tableName
  /\ NewAudit(r)[1].record_id = r.id
  /\ NewAudit(r)[1].actor_id = r.user.sub

NoAuditRow(r, action) ==
  \A i \in 1..Len(NewAudit(r)) : NewAudit(r)[i].action # action

Financial(deal) == <<deal.value, deal.buckets, deal.prob>>

TouchesFinancial(body) == {"value", "buckets", "prob"} \cap DOMAIN body # {}

\* A PATCH /deals/:id by an admin on a deal that was stored when it arrived.
DealPatchOf(r) ==
  /\ Done(r)
  /\ r.op = PATCH_DEAL
  /\ r.user.role = "admin"
  /\ r.id \in DOMAIN r.pre.deals

(***************************************************************************)
(* C1.  A PATCH /deals/:id on a deal stored as paid whose payload holds    *)
(* value, buckets or prob is answered 403, leaves the three fields as they *)
(* were, and records exactly one BLOCKED_EDIT_PAID_DEAL audit row (none    *)
(* when the audit insert itself fails).                                    *)
(***************************************************************************)
C1_PaidDealFinancialEditBlocked ==
  \A s \in DOMAIN req : LET r == req[s] IN
    ( /\ DealPatchOf(r)
      /\ r.pre.deals[r.id].invoice_status = "paid"
      /\ TouchesFinancial(r.body) )
    => /\ r.res.status = 403
       /\ r.id \in DOMAIN deals
       /\ Financial(deals[r.id]) = Financial(r.pre.deals[r.id])
       /\ r.fault # "audit" => /\ OneAuditRow(r, "BLOCKED_EDIT_PAID_DEAL", "deals")
                               /\ NewAudit(r)[1].changes.reason = "deal is paid"
       /\ r.fault = "audit" => Len(NewAudit(r)) = 0

C1_Witness ==
  \E s \in DOMAIN req : LET r == req[s] IN
    /\ DealPatchOf(r)
    /\ r.pre.deals[r.id].invoice_status = "paid"
    /\ "prob" \in DOMAIN r.body
    /\ r.res.status = 403
    /\ OneAuditRow(r, "BLOCKED_EDIT_PAID_DEAL", "deals")

(***************************************************************************)
(* C3.  A PATCH /deals/:id whose payload holds invoiceStatus only is       *)
(* answered 200 whatever the stored invoiceStatus, paid included; the deal *)
(* then stores the new status ('none' for an empty one) and no             *)
(* BLOCKED_EDIT_PAID_DEAL row is recorded.                                 *)
(***************************************************************************)
C3_InvoiceStatusAlwaysEditable ==
  \A s \in DOMAIN req : LET r == req[s] IN
    ( /\ DealPatchOf(r)
      /\ DOMAIN r.body = {"invoiceStatus"}
      /\ r.fault # "write" )
    => /\ r.res.status = 200
       /\ r.id \in DOMAIN deals
       /\ deals[r.id].invoice_status =
            (IF r.body.invoiceStatus = "" THEN "none" ELSE r.body.invoiceStatus)
       /\ NoAuditRow(r, "BLOCKED_EDIT_PAID_DEAL")

C3_Witness ==
  \E s \in DOMAIN req : LET r == req[s] IN
    /\ DealPatchOf(r)
    /\ r.pre.deals[r.id].invoice_status = "paid"
    /\ r.body = [invoiceStatus |-> "sent"]
    /\ r.res.status = 200
    /\ deals[r.id].invoice_status = "sent"

(***************************************************************************)
(* C8.  A DELETE /deals/:id on a paid deal is answered 403, leaves the     *)
(* deal stored and records BLOCKED_DELETE_PAID_DEAL; on a deal that is not *)
(* paid it removes the deal and records DELETE_DEAL with the deal's name.  *)
(* So whenever a request has removed a deal, the deal was not paid.        *)
(***************************************************************************)
C8_PaidDealNotDeleted ==
  \A s \in DOMAIN req : LET r == req[s] IN
    /\ ( /\ Done(r)
         /\ r.op = DELETE_DEAL
         /\ r.user.role \in {"admin", "class_a"}
         /\ r.id \in DOMAIN r.pre.deals )
       => LET deal == r.pre.deals[r.id] IN
          /\ deal.invoice_status = "paid" =>
               /\ r.res.status = 403
               /\ r.id \in DOMAIN deals /\ deals[r.id] = deal
               /\ r.fault # "audit" =>
                    /\ OneAuditRow(r, "BLOCKED_DELETE_PAID_DEAL", "deals")
                    /\ NewAudit(r)[1].changes = [name |-> deal.name]
          /\ (deal.invoice_status # "paid" /\ r.fault # "write") =>
               /\ r.res.status = 200
               /\ r.id \notin DOMAIN deals
               /\ r.fault # "audit" =>
                    /\ OneAuditRow(r, "DELETE_DEAL", "deals")
                    /\ NewAudit(r)[1].changes = [name |-> deal.name]
    /\ Done(r) =>
         \A d \in DOMAIN r.pre.deals :
           d \notin DOMAIN deals => r.pre.deals[d].invoice_status # "paid"

C8_Witness ==
  \E s \in DOMAIN req : LET r == req[s] IN
    /\ Done(r) /\ r.op = DELETE_DEAL
    /\ r.id \in DOMAIN r.pre.deals
    /\ r.pre.deals[r.id].invoice_status = "sent"
    /\ r.res.status = 200
    /\ r.id \notin DOMAIN deals
    /\ \E i \in 1..Len(audit_log) : audit_log[i].action = "BLOCKED_DELETE_PAID_DEAL"

(***************************************************************************)
(* C2.  In any sequence of PATCH /deals/:id requests on one deal, a        *)
(* request whose payload holds value, buckets or prob is answered 403 and  *)
(* changes nothing exactly when the stored invoiceStatus is 'paid' when it *)
(* arrives, and is answered 200 and applied otherwise: blocked after the   *)
(* deal is paid, applied after it is unlocked, blocked again once paid     *)
(* again.                                                                  *)
(***************************************************************************)
C2_FinancialEditAcceptedIffNotPaid ==
  \A s \in DOMAIN req : LET r == req[s] IN
    ( /\ DealPatchOf(r)
      /\ r.fault = "none"
      /\ TouchesFinancial(r.body) )
    => LET wasPaid == r.pre.deals[r.id].invoice_status = "paid" IN
       /\ r.res.status = 403 <=> wasPaid
       /\ r.res.status = 200 <=> ~wasPaid
       /\ wasPaid => deals = r.pre.deals
       /\ ~wasPaid => \A k \in {"value", "prob", "buckets"} \cap DOMAIN r.body :
                        deals[r.id][k] = r.body[k]

\* A financial edit blocked, a later one applied, and a still later one
\* blocked again.
C2_Witness ==
  \E i, j, k \in 1..Len(audit_log) :
    /\ i < j /\ j < k
    /\ audit_log[i].action = "BLOCKED_EDIT_PAID_DEAL"
    /\ audit_log[j].action = "EDIT_DEAL"
    /\ "value" \in DOMAIN audit_log[j].changes
    /\ audit_log[k].action = "BLOCKED_EDIT_PAID_DEAL"
    /\ Done(req[1]) /\ req[1].res.status = 403
    /\ deals["d1"].value = 3000

(***************************************************************************)
(* C9.  With PATCH /deals/:id requests interleaved on one deal, no step    *)
(* changes value, buckets or prob of a deal that is stored as paid when    *)
(* the step is taken.                                                      *)
(***************************************************************************)
C9_NoFinancialWriteOnPaidDeal ==
  [][ \A d \in DOMAIN deals :
        (deals[d].invoice_status = "paid" /\ d \in DOMAIN deals')
          => Financial(deals'[d]) = Financial(deals[d]) ]_vars

(***************************************************************************)
(* C4.  A PATCH /tasks/:id whose payload holds estHours is answered 403,   *)
(* with the task unchanged and one BLOCKED_EDIT_TASK_HOURS row carrying    *)
(* the attempted hours, exactly when the task's project is complete and    *)
(* linked to a deal that is paid; otherwise the hours are stored.  A       *)
(* payload holding status alone is applied in every lock state.            *)
(***************************************************************************)
PATCH_TASK == "PATCH /api/tasks/:id"

\* The hours lock, read from the tables as the request found them.
HoursLockedIn(pre, taskId) ==
  LET proj == pre.projects[pre.tasks[taskId].project_id] IN
    /\ proj.status = "complete"
    /\ proj.deal_id \in DOMAIN pre.deals
    /\ pre.deals[proj.deal_id].invoice_status = "paid"

C4_TaskHoursLockedIffCompleteAndPaid ==
  \A s \in DOMAIN req : LET r == req[s] IN
    (Done(r) /\ r.op = PATCH_TASK /\ r.id \in DOMAIN r.pre.tasks)
    => LET locked == HoursLockedIn(r.pre, r.id) IN
       /\ "estHours" \in DOMAIN r.body =>
            /\ r.res.status = 403 <=> locked
            /\ locked =>
                 /\ tasks = r.pre.tasks
                 /\ r.fault # "audit" =>
                      /\ OneAuditRow(r, "BLOCKED_EDIT_TASK_HOURS", "tasks")
                      /\ NewAudit(r)[1].changes.attempted_hours = r.body.estHours
            /\ (~locked /\ r.fault # "write") =>
                 /\ r.res.status = 200
                 /\ tasks[r.id].est_hours = r.body.estHours
       /\ (DOMAIN r.body = {"status"} /\ r.fault # "write") =>
            /\ r.res.status = 200
            /\ tasks[r.id].status = r.body.status

\* An hours edit was blocked, the project was reopened, and the same edit
\* is now stored.
C4_Witness ==
  LET r == req[1] IN
    /\ Done(r) /\ r.op = PATCH_TASK
    /\ r.body = [estHours |-> 8]
    /\ r.res.status = 200
    /\ tasks["t1"].est_hours = 8
    /\ projects["p1"].status = "active"
    /\ deals["d1"].invoice_status = "paid"
    /\ Len(audit_log) = 1
    /\ audit_log[1].action = "BLOCKED_EDIT_TASK_HOURS"
    /\ audit_log[1].changes.attempted_hours = 8

\* A status-only edit of a task whose hours are locked.
C4_WitnessStatus ==
  LET r == req[1] IN
    /\ Done(r) /\ r.op = PATCH_TASK
    /\ r.body = [status |-> "done"]
    /\ r.id \in DOMAIN r.pre.tasks /\ HoursLockedIn(r.pre, r.id)
    /\ r.res.status = 200

(***************************************************************************)
(* C5.  A PATCH /team/:id on a member with a paid profit_share_status row, *)
(* whose payload holds a profitSharePct different from the stored one, is  *)
(* answered 403 naming the member, leaves the member as stored and records *)
(* BLOCKED_PS_PCT_CHANGE with {from, to, reason}; a payload holding name   *)
(* alone is applied for the same member.  (Stated of requests that reach   *)
(* the profit-share guard: sent by an admin and not refused before it as a *)
(* self-demotion.)                                                         *)
(***************************************************************************)
PATCH_TEAM == "PATCH /api/team/:id"

PaidIn(pre, memberId) ==
  \E row \in pre.profit_share_status : row.member_id = memberId /\ row.paid

RemovesOwnAdmin(r) ==
  /\ r.id = r.user.sub
  /\ "authRole" \in DOMAIN r.body
  /\ r.body.authRole \notin {"", "admin"}

TeamPatchOf(r) ==
  /\ Done(r)
  /\ r.op = PATCH_TEAM
  /\ r.user.role = "admin"
  /\ r.id \in DOMAIN r.pre.team_members
  /\ ~RemovesOwnAdmin(r)

ChangesPct(r) ==
  /\ "profitSharePct" \in DOMAIN r.body
  /\ r.body.profitSharePct # r.pre.team_members[r.id].profit_share_pct

C5_PaidProfitSharePctLocked ==
  \A s \in DOMAIN req : LET r == req[s] IN
    (TeamPatchOf(r) /\ PaidIn(r.pre, r.id))
    => LET member == r.pre.team_members[r.id] IN
       /\ ChangesPct(r) =>
            /\ r.res.status = 403
            /\ r.res.error[1] = member.name
            /\ team_members[r.id] = member
            /\ r.fault # "audit" =>
                 /\ OneAuditRow(r, "BLOCKED_PS_PCT_CHANGE", "team_members")
                 /\ DOMAIN NewAudit(r)[1].changes = {"from", "to", "reason"}
                 /\ NewAudit(r)[1].changes.from = member.profit_share_pct
                 /\ NewAudit(r)[1].changes.to = r.body.profitSharePct
       /\ (DOMAIN r.body = {"name"} /\ r.fault # "write") =>
            /\ r.res.status = 200
            /\ team_members[r.id] = [member EXCEPT !.name = r.body.name]

\* A name-only edit stored for a member whose percentage change was
\* refused just before.
C5_Witness ==
  LET r == req[1] IN
    /\ TeamPatchOf(r) /\ PaidIn(r.pre, r.id)
    /\ r.body = [name |-> "Nate"]
    /\ r.res.status = 200
    /\ team_members[r.id].name = "Nate"
    /\ Len(audit_log) > 0
    /\ audit_log[Len(audit_log)].action = "BLOCKED_PS_PCT_CHANGE"
    /\ audit_log[Len(audit_log)].record_id = r.id

(***************************************************************************)
(* C6.  In any sequence of profit-share toggles and PATCH /team/:id        *)
(* requests, a request changing a member's profitSharePct is answered 403  *)
(* (naming the member, percentage unchanged) exactly when some             *)
(* profit_share_status row of the member is paid when it arrives, and is   *)
(* applied otherwise; the table keeps one row for each (quarter, member).  *)
(***************************************************************************)
C6_PctChangeRejectedIffPaidRow ==
  /\ \A s \in DOMAIN req : LET r == req[s] IN
       (TeamPatchOf(r) /\ r.fault = "none" /\ ChangesPct(r))
       => LET member == r.pre.team_members[r.id]
              paid == PaidIn(r.pre, r.id)
          IN /\ r.res.status = 403 <=> paid
             /\ r.res.status = 200 <=> ~paid
             /\ paid => /\ r.res.error[1] = member.name
                        /\ team_members[r.id].profit_share_pct = member.profit_share_pct
             /\ ~paid => team_members[r.id].profit_share_pct = r.body.profitSharePct
  /\ \A x, y \in profit_share_status :
       (x.quarter_key = y.quarter_key /\ x.member_id = y.member_id) => x = y

\* A change applied, a later one refused, and a still later one applied
\* after the paid row was toggled back; the toggled key still has one row.
C6_Witness ==
  /\ Len(audit_log) = 3
  /\ audit_log[1].action = "EDIT_TEAM_PS_PCT"
  /\ audit_log[2].action = "BLOCKED_PS_PCT_CHANGE"
  /\ audit_log[3].action = "EDIT_TEAM_PS_PCT"
  /\ Done(req[1]) /\ req[1].op = PATCH_TEAM /\ req[1].res.status = 200
  /\ team_members["m2"].profit_share_pct = 40
  /\ profit_share_status = {PsRow("Q1-2025", "m2", FALSE)}

(***************************************************************************)
(* C7.  A DELETE /pay-log/:id on an entry with is_manual = false is        *)
(* answered 403 and leaves the entry stored, so a non-manual entry a       *)
(* request found stored is still stored, unchanged, whatever the request   *)
(* did; on an entry with is_manual = true it removes the entry, answers    *)
(* 200 and records DELETE_PAY_LOG with {member, amount}.                   *)
(***************************************************************************)
DELETE_PAY_LOG == "DELETE /api/pay-log/:id"

C7_AutoPayLogEntryKept ==
  \A s \in DOMAIN req : LET r == req[s] IN
    /\ ( /\ Done(r)
         /\ r.op = DELETE_PAY_LOG
         /\ r.user.role = "admin"
         /\ r.id \in DOMAIN r.pre.pay_log )
       => LET entry == r.pre.pay_log[r.id] IN
          /\ ~entry.is_manual =>
               /\ r.res.status = 403
               /\ pay_log = r.pre.pay_log
          /\ (entry.is_manual /\ r.fault # "write") =>
               /\ r.res.status = 200
               /\ r.id \notin DOMAIN pay_log
               /\ r.fault # "audit" =>
                    /\ OneAuditRow(r, "DELETE_PAY_LOG", "pay_log")
                    /\ NewAudit(r)[1].changes =
                         [member |-> entry.member_name, amount |-> entry.amount]
    /\ r.pc # "idle" =>
         \A id \in DOMAIN r.pre.pay_log :
           ~r.pre.pay_log[id].is_manual =>
             id \in DOMAIN pay_log /\ pay_log[id] = r.pre.pay_log[id]

\* The delete of an inserted automatic entry refused, after the manual
\* entry was deleted.
C7_Witness ==
  LET r == req[1] IN
    /\ Done(r) /\ r.op = DELETE_PAY_LOG
    /\ r.id \in DOMAIN pay_log
    /\ r.id \notin DOMAIN PayLog0
    /\ ~pay_log[r.id].is_manual
    /\ r.res.status = 403
    /\ "manual1" \notin DOMAIN pay_log
    /\ \E i \in 1..Len(audit_log) :
         /\ audit_log[i].action = "DELETE_PAY_LOG"
         /\ audit_log[i].record_id = "manual1"
         /\ audit_log[i].changes = [member |-> "Nathan Blumberg", amount |-> 500]

(***************************************************************************)
(* C10.  A failed audit insert is swallowed: the step of a handler that    *)
(* awaits auditLog changes no business table and leaves the request where  *)
(* a successful insert leaves it (the same response, or the same next      *)
(* store call), whether the insert succeeds or fails.                      *)
(***************************************************************************)
AuditPcs == {"patch_deal_blocked", "patch_deal_audit", "delete_deal_blocked",
             "delete_deal_audit", "patch_task_blocked", "patch_team_blocked",
             "patch_team_audit", "post_pay_log_audit", "delete_pay_log_audit"}

\* Where the code goes after `await auditLog(...)`: <<pc, response status>>.
AfterAudit(pc) ==
  CASE pc = "patch_deal_blocked"   -> <<"done", 403>>
    [] pc = "patch_deal_audit"     -> <<"done", 200>>
    [] pc = "delete_deal_blocked"  -> <<"done", 403>>
    [] pc = "delete_deal_audit"    -> <<"delete_deal_delete", 0>>
    [] pc = "patch_task_blocked"   -> <<"done", 403>>
    [] pc = "patch_team_blocked"   -> <<"done", 403>>
    [] pc = "patch_team_audit"     -> <<"done", 200>>
    [] pc = "post_pay_log_audit"   -> <<"done", 201>>
    [] pc = "delete_pay_log_audit" -> <<"delete_pay_log_delete", 0>>

C10_AuditFailureSwallowed ==
  [][ \A s \in DOMAIN req :
        (req[s].pc \in AuditPcs /\ req'[s] # req[s])
          => /\ business' = business
             /\ <<req'[s].pc, req'[s].res.status>> = AfterAudit(req[s].pc)
             /\ audit_log' = audit_log <=> req[s].fault = "audit" ]_vars

\* An edit of a deal answered 200 and stored although its EDIT_DEAL row
\* could not be inserted.
C10_Witness ==
  LET r == req[1] IN
    /\ Done(r) /\ r.op = PATCH_DEAL
    /\ r.fault = "audit"
    /\ r.res.status = 200
    /\ r.changes # Null
    /\ deals[r.id].value = 3000 /\ r.pre.deals[r.id].value = 1000
    /\ Len(audit_log) = r.preAudit

(***************************************************************************)
(* C11.  The audit log is append-only: every step of every handler leaves  *)
(* the rows already recorded in place, in order and with unchanged         *)
(* content; a step may only add rows after them.  GET /audit-log reads.    *)
(***************************************************************************)
C11_AuditLogAppendOnly ==
  [][ /\ Len(audit_log') >= Len(audit_log)
      /\ SubSeq(audit_log', 1, Len(audit_log)) = audit_log ]_vars

\* A request has added a row after the row of an earlier request, which is
\* still the first row.
C11_Witness ==
  LET r == req[1] IN
    /\ Done(r)
    /\ r.preAudit = 1
    /\ Len(audit_log) = 2
    /\ audit_log[1].record_id # audit_log[2].record_id
    /\ audit_log[2].record_id = r.id

(***************************************************************************)
(* C12.  A POST /pay-status or POST /profit-share-status that sets paid to *)
(* true and is answered 200 has stored the flag and has appended an        *)
(* automatic (is_manual = false) pay-log entry for the member.             *)
(***************************************************************************)
POST_PAY_STATUS == "POST /api/pay-status"
POST_PS_STATUS == "POST /api/profit-share-status"

Toggle(r) == Done(r) /\ r.op \in {POST_PAY_STATUS, POST_PS_STATUS}
               /\ r.res.status = 200

\* The paid flag the toggle's key holds in the store.
FlagStored(r) ==
  IF r.op = POST_PAY_STATUS
    THEN \E row \in pay_status : row.pay_key = r.id /\ row.paid = r.body.paid
    ELSE \E row \in profit_share_status :
           /\ row.quarter_key = r.body.quarterKey
           /\ row.member_id = r.body.memberId
           /\ row.paid = r.body.paid

C12_PaidToggleAppendsPayLogEntry ==
  \A s \in DOMAIN req : LET r == req[s] IN
    (Toggle(r) /\ r.body.paid)
      => /\ FlagStored(r)
         /\ \E id \in DOMAIN pay_log \ DOMAIN r.pre.pay_log :
              /\ ~pay_log[id].is_manual
              /\ pay_log[id].member_id = r.body.memberId

(***************************************************************************)
(* C13.  Reversing a profit-share toggle (paid set back to false) removes  *)
(* the automatic pay-log entry of that quarter and member, and no other    *)
(* request removes an automatic entry.                                     *)
(***************************************************************************)
AutoEntryOf(log, quarterKey, memberId) ==
  {id \in DOMAIN log : /\ ~log[id].is_manual
                       /\ log[id].quarter_key = quarterKey
                       /\ log[id].member_id = memberId}

C13_AutoEntryRemovedByReversalOnly ==
  \A s \in DOMAIN req : LET r == req[s] IN
    /\ ( /\ Toggle(r) /\ r.op = POST_PS_STATUS /\ ~r.body.paid
         /\ PsRow(r.body.quarterKey, r.body.memberId, TRUE)
              \in r.pre.profit_share_status )
         => AutoEntryOf(pay_log, r.body.quarterKey, r.body.memberId) = {}
    /\ (r.pc # "idle" /\ ~(Toggle(r) /\ ~r.body.paid))
         => \A id \in DOMAIN r.pre.pay_log :
              ~r.pre.pay_log[id].is_manual => id \in DOMAIN pay_log

(***************************************************************************)
(* The lock-rule violations, read from the request and from the tables as  *)
(* the request found them.                                                 *)
(***************************************************************************)
DELETE_TEAM == "DELETE /api/team/:id"

LockViolation(r) ==
  CASE /\ r.op = PATCH_DEAL /\ r.id \in DOMAIN r.pre.deals
       /\ r.pre.deals[r.id].invoice_status = "paid"
       /\ TouchesFinancial(r.body)              -> "financial-fields-locked"
    [] /\ r.op = DELETE_DEAL /\ r.id \in DOMAIN r.pre.deals
       /\ r.pre.deals[r.id].invoice_status = "paid" -> "deal-paid-delete"
    [] /\ r.op = PATCH_TASK /\ "estHours" \in DOMAIN r.body
       /\ r.id \in DOMAIN r.pre.tasks
       /\ HoursLockedIn(r.pre, r.id)            -> "task-hours-locked"
    [] r.op = PATCH_TEAM /\ RemovesOwnAdmin(r)  -> "self-demotion"
    [] /\ r.op = PATCH_TEAM /\ ~RemovesOwnAdmin(r)
       /\ r.id \in DOMAIN r.pre.team_members
       /\ ChangesPct(r) /\ PaidIn(r.pre, r.id)  -> "profit-share-locked"
    [] /\ r.op = DELETE_PAY_LOG /\ r.id \in DOMAIN r.pre.pay_log
       /\ ~r.pre.pay_log[r.id].is_manual        -> "auto-pay-log-entry-delete"
    [] r.op = DELETE_TEAM /\ r.id = r.user.sub  -> "self-deletion"
    [] OTHER                                    -> "none"

\* The caller's role passes the middleware of the route.
Authorized(r) ==
  IF r.op = PATCH_TASK THEN TRUE
  ELSE IF r.op = DELETE_DEAL THEN r.user.role \in {"admin", "class_a"}
  ELSE r.user.role = "admin"

Violating(r) == Done(r) /\ Authorized(r) /\ LockViolation(r) # "none"

BlockedActions == {"BLOCKED_EDIT_PAID_DEAL", "BLOCKED_DELETE_PAID_DEAL",
                   "BLOCKED_EDIT_TASK_HOURS", "BLOCKED_PS_PCT_CHANGE"}

(***************************************************************************)
(* C14.  Every lock-rule violation ends with no business table written,    *)
(* with a rejection, and (when the audit insert succeeds) with one         *)
(* BLOCKED_* audit row of the request.                                     *)
(***************************************************************************)
C14_LockViolationBlockedAndAudited ==
  \A s \in DOMAIN req : LET r == req[s] IN
    Violating(r)
      => /\ Snapshot = r.pre
         /\ r.res.status \in {400, 403}
         /\ r.fault # "audit" =>
              /\ Len(NewAudit(r)) = 1
              /\ NewAudit(r)[1].action \in BlockedActions
              /\ NewAudit(r)[1].record_id = r.id

(***************************************************************************)
(* C15.  As claimed: every lock-rule violation is answered 403.            *)
(***************************************************************************)
C15_LockViolationAnswered403 ==
  \A s \in DOMAIN req : LET r == req[s] IN
    Violating(r) => r.res.status = 403

(***************************************************************************)
(* C15, amended.  A lock-rule violation on the financial fields or the     *)
(* deletion of a paid deal, on locked task hours, on a locked profit-share *)
(* percentage or on the deletion of an automatic pay-log entry is answered *)
(* 403; self-demotion and self-deletion are answered 400.                  *)
(***************************************************************************)
C15_LockViolationStatus ==
  \A s \in DOMAIN req : LET r == req[s] IN
    Violating(r)
      => r.res.status =
           IF LockViolation(r) \in {"self-demotion", "self-deletion"}
             THEN 400 ELSE 403

\* A self-demotion answered 400 after a blocked request answered 403 and
\* recorded.
C15_Witness ==
  LET r == req[1] IN
    /\ Violating(r)
    /\ LockViolation(r) = "self-demotion"
    /\ r.res.status = 400
    /\ team_members[r.id].auth_role = "admin"
    /\ Len(audit_log) = 1
    /\ audit_log[1].action \in BlockedActions

(***************************************************************************)
(* C16.  A PATCH /team/:id by a member on themselves with an authRole      *)
(* other than 'admin' and a DELETE /team/:id by a member on themselves are *)
(* rejected and change nothing, so no request removes the caller's own row *)
(* or takes the caller's own stored admin role away.                       *)
(***************************************************************************)
C16_NoSelfDemotionNoSelfDeletion ==
  \A s \in DOMAIN req : LET r == req[s] IN
    /\ ( /\ Done(r) /\ r.op = PATCH_TEAM /\ r.user.role = "admin"
         /\ r.id = r.user.sub
         /\ "authRole" \in DOMAIN r.body /\ r.body.authRole # "admin" )
         => r.res.status = 400 /\ Snapshot = r.pre
    /\ (Done(r) /\ r.op = DELETE_TEAM /\ r.user.role = "admin" /\ r.id = r.user.sub)
         => r.res.status = 400 /\ Snapshot = r.pre
    /\ (r.pc # "idle" /\ r.user.sub \in DOMAIN r.pre.team_members)
         => /\ r.user.sub \in DOMAIN team_members
            /\ r.pre.team_members[r.user.sub].auth_role = "admin"
                 => team_members[r.user.sub].auth_role = "admin"

\* Kyle's deletion of himself refused, after he made Nathan an admin.
C16_Witness ==
  LET r == req[1] IN
    /\ Done(r) /\ r.op = DELETE_TEAM
    /\ r.user = Kyle /\ r.id = "m1"
    /\ r.res.status = 400
    /\ team_members["m1"].auth_role = "admin"
    /\ "m2" \in DOMAIN team_members
    /\ team_members["m2"].auth_role = "admin"

(***************************************************************************)
(* C17.  Every stored member's auth_role is one of admin, class_a,         *)
(* class_b, va, and a PATCH /team/:id with another authRole is answered    *)
(* 400 and stores nothing.                                                 *)
(***************************************************************************)
C17_AuthRoleAlwaysValid ==
  /\ \A id \in DOMAIN team_members :
       team_members[id].auth_role \in {"admin", "class_a", "class_b", "va"}
  /\ \A s \in DOMAIN req : LET r == req[s] IN
       ( /\ Done(r) /\ r.op = PATCH_TEAM /\ r.user.role = "admin"
         /\ "authRole" \in DOMAIN r.body
         /\ r.body.authRole \notin {"admin", "class_a", "class_b", "va"} )
         => r.res.status = 400 /\ Snapshot = r.pre

(***************************************************************************)
(* C18.  A request whose token role is not admin on a route that creates   *)
(* or updates a deal, creates, updates or deletes a member, toggles a pay  *)
(* or profit-share status or inserts or deletes a pay-log entry, and a     *)
(* request whose token role is neither admin nor class_a on DELETE         *)
(* /deals/:id, is answered 403 and leaves every table and the audit log    *)
(* unchanged.                                                              *)
(***************************************************************************)
AdminRoutes ==
  {"POST /api/deals", PATCH_DEAL, "POST /api/team", PATCH_TEAM, DELETE_TEAM,
   POST_PAY_STATUS, POST_PS_STATUS, "POST /api/pay-log", DELETE_PAY_LOG}

C18_RoleInsufficientChangesNothing ==
  \A s \in DOMAIN req : LET r == req[s] IN
    ( /\ Done(r)
      /\ \/ r.op \in AdminRoutes /\ r.user.role # "admin"
         \/ r.op = DELETE_DEAL /\ r.user.role \notin {"admin", "class_a"} )
      => /\ r.res.status = 403
         /\ Snapshot = r.pre
         /\ Len(audit_log) = r.preAudit

\* The va member's delete of a deal refused, as the second request.
C18_Witness ==
  LET r == req[1] IN
    /\ Done(r) /\ r.op = DELETE_DEAL /\ r.user = Blaise
    /\ r.res.status = 403
    /\ r.res.error = <<"Deleting records requires Admin or Class A access">>
    /\ "d1" \in DOMAIN deals
    /\ nreq = 2 /\ audit_log = <<>>

(***************************************************************************)
(* C19.  POST /pay-log without memberId, payType or amount is answered 400 *)
(* and inserts nothing; with all three it inserts exactly one entry, for   *)
(* any amount (zero and negative included), answers 201 and records one    *)
(* PAY_LOG_ENTRY row with member (when memberName is supplied), type,      *)
(* amount and isManual, false when not supplied.                           *)
(***************************************************************************)
POST_PAY_LOG == "POST /api/pay-log"

RequiredMissing(body) == {"memberId", "payType", "amount"} \ DOMAIN body # {}

IsManualOf(body) == IF "isManual" \in DOMAIN body THEN body.isManual ELSE FALSE

C19_PayLogInsertValidated ==
  \A s \in DOMAIN req : LET r == req[s] IN
    (Done(r) /\ r.op = POST_PAY_LOG /\ r.user.role = "admin")
      => /\ RequiredMissing(r.body) =>
              /\ r.res.status = 400
              /\ Snapshot = r.pre
              /\ Len(audit_log) = r.preAudit
         /\ (~RequiredMissing(r.body) /\ r.fault # "write") =>
              /\ r.res.status = 201
              /\ DOMAIN pay_log = DOMAIN r.pre.pay_log \cup {r.id}
              /\ r.id \notin DOMAIN r.pre.pay_log
              /\ \A id \in DOMAIN r.pre.pay_log : pay_log[id] = r.pre.pay_log[id]
              /\ pay_log[r.id].member_id = r.body.memberId
              /\ pay_log[r.id].pay_type = r.body.payType
              /\ pay_log[r.id].amount = r.body.amount
              /\ pay_log[r.id].is_manual = IsManualOf(r.body)
              /\ r.fault # "audit" =>
                   /\ OneAuditRow(r, "PAY_LOG_ENTRY", "pay_log")
                   /\ LET c == NewAudit(r)[1].changes IN
                        /\ c.type = r.body.payType
                        /\ c.amount = r.body.amount
                        /\ c.isManual = IsManualOf(r.body)
                        /\ "memberName" \in DOMAIN r.body
                             => c.member = r.body.memberName

\* An entry of amount -50 inserted and recorded after an entry of amount 0
\* whose isManual was not supplied.
C19_Witness ==
  LET r == req[1] IN
    /\ Done(r) /\ r.op = POST_PAY_LOG
    /\ r.res.status = 201
    /\ pay_log[r.id].amount = -50
    /\ Len(audit_log) = 2
    /\ audit_log[1].changes.amount = 0
    /\ audit_log[1].changes.isManual = FALSE
    /\ audit_log[2].action = "PAY_LOG_ENTRY"
    /\ audit_log[2].changes.amount = -50
    /\ \E id \in DOMAIN pay_log : pay_log[id].amount = 0 /\ ~pay_log[id].is_manual

(***************************************************************************)
(* C20.  A PATCH or DELETE naming an id for which no entity is stored is   *)
(* answered 500, never with success, and changes no stored state.          *)
(***************************************************************************)
AbsentEntity(r) ==
  CASE r.op \in {PATCH_DEAL, DELETE_DEAL}   -> r.id \notin DOMAIN r.pre.deals
    [] r.op = PATCH_TASK                    -> r.id \notin DOMAIN r.pre.tasks
    [] r.op \in {PATCH_TEAM, DELETE_TEAM}   -> r.id \notin DOMAIN r.pre.team_members
    [] r.op = DELETE_PAY_LOG                -> r.id \notin DOMAIN r.pre.pay_log
    [] OTHER                                -> FALSE

C20_AbsentEntityFails ==
  \A s \in DOMAIN req : LET r == req[s] IN
    (Done(r) /\ Authorized(r) /\ AbsentEntity(r))
      => /\ r.res.status = 500
         /\ Snapshot = r.pre
         /\ Len(audit_log) = r.preAudit

(***************************************************************************)
(* C21.  The update of PATCH /deals/:id is unconditional: whatever the     *)
(* deal holds when the update runs (also when another request has written  *)
(* it since this request read it), the step stores every column of the     *)
(* payload and the request goes on to its 200.  So two requests that both  *)
(* read a status other than 'paid' both commit, the later write            *)
(* determining the columns both payloads contain.                          *)
(***************************************************************************)
C21_UpdateCommitsUnconditionally ==
  [][ \A s \in DOMAIN req :
        (req[s].pc = "patch_deal_update" /\ req'[s] # req[s])
          => LET r == req[s]
                 row == dealToRow(r.body, TRUE)
             IN /\ r.id \in DOMAIN deals'
                /\ \A c \in DOMAIN row : deals'[r.id][c] = row[c]
                /\ req'[s].pc \in {"patch_deal_audit", "done"}
                /\ req'[s].pc = "done" => req'[s].res.status = 200 ]_vars

\* Two requests that both read value 1000 and status 'sent', both answered
\* 200, both recorded from 1000; the stored value is that of the later write.
C21_Witness ==
  /\ \A s \in Slots :
       /\ Done(req[s]) /\ req[s].op = PATCH_DEAL /\ req[s].res.status = 200
       /\ req[s].current.invoice_status = "sent"
       /\ req[s].current.value = 1000
       /\ req[s].changes # Null
       /\ "value" \in DOMAIN req[s].changes
       /\ req[s].changes.value.from = 1000
  /\ req[1].body = [value |-> 3000]
  /\ req[2].body = [value |-> 2000]
  /\ deals["d1"].value = 2000
  /\ Len(audit_log) = 2

(***************************************************************************)
(* C29.  When no request is in flight, the EDIT_DEAL rows of d1 can be put *)
(* in an order in which, for every column, they form a chain: the first    *)
(* 'from' is the value the deal started with, each 'from' is the previous  *)
(* 'to', and the last 'to' is the stored value.                            *)
(***************************************************************************)
EditRows(d, k) ==
  {i \in 1..Len(audit_log) :
     /\ audit_log[i].action = "EDIT_DEAL"
     /\ audit_log[i].record_id = d
     /\ k \in DOMAIN audit_log[i].changes}

ConsistentHistory(d, k, initial) ==
  LET rows == EditRows(d, k)
      n == Cardinality(rows)
      ch(i) == audit_log[i].changes[k]
  IN IF n = 0 THEN deals[d][k] = initial
     ELSE \E f \in [1..n -> rows] :
            /\ \A i, j \in 1..n : f[i] = f[j] => i = j
            /\ ch(f[1]).from = initial
            /\ \A i \in 1..(n - 1) : ch(f[i + 1]).from = ch(f[i]).to
            /\ ch(f[n]).to = deals[d][k]

C29_EditDealHistoryConsistent ==
  (\A s \in DOMAIN req : Free(s))
    => \A k \in {"value", "prob", "invoice_status"} :
         ConsistentHistory("d1", k, Deal0("sent")[k])

(***************************************************************************)
(* C22.  PATCH /team/:id evaluates its guards in the order self-demotion,  *)
(* role validity, profit-share lock: a request whose authRole is not one   *)
(* of admin, class_a, class_b, va is answered 400 and records no           *)
(* BLOCKED_PS_PCT_CHANGE row, also when its payload changes the            *)
(* percentage of a profit-share-locked member.                             *)
(***************************************************************************)
InvalidRolePatch(r) ==
  /\ Done(r)
  /\ r.op = PATCH_TEAM
  /\ r.user.role = "admin"
  /\ ~RemovesOwnAdmin(r)
  /\ "authRole" \in DOMAIN r.body
  /\ r.body.authRole \notin {"admin", "class_a", "class_b", "va"}

LockedPctChange(r) ==
  /\ r.id \in DOMAIN r.pre.team_members
  /\ ChangesPct(r)
  /\ PaidIn(r.pre, r.id)

C22_RoleValidityBeforeLock ==
  \A s \in DOMAIN req : LET r == req[s] IN
    InvalidRolePatch(r)
    => /\ r.res.status = 400
       /\ NoAuditRow(r, "BLOCKED_PS_PCT_CHANGE")

(***************************************************************************)
(* C22, as the code has it.  The profit-share lock is evaluated before     *)
(* role validity: a request with an invalid authRole that also changes the *)
(* percentage of a profit-share-locked member is answered 403 and records  *)
(* one BLOCKED_PS_PCT_CHANGE row; every other request with an invalid      *)
(* authRole is answered 400 and records no audit row.  Neither stores      *)
(* anything.                                                               *)
(***************************************************************************)
C22_LockBeforeRoleValidity ==
  \A s \in DOMAIN req : LET r == req[s] IN
    InvalidRolePatch(r)
    => /\ Snapshot = r.pre
       /\ IF LockedPctChange(r)
            THEN /\ r.res.status = 403
                 /\ r.res.error[1] = r.pre.team_members[r.id].name
                 /\ r.fault # "audit" =>
                      OneAuditRow(r, "BLOCKED_PS_PCT_CHANGE", "team_members")
            ELSE /\ r.res.status = 400
                 /\ r.res.error = <<"Invalid role">>
                 /\ NewAudit(r) = <<>>

\* The request with role 'owner' and percentage 30 for the locked member,
\* answered 403 with its BLOCKED_PS_PCT_CHANGE row.
C22_Witness ==
  LET r == req[1] IN
    /\ InvalidRolePatch(r)
    /\ LockedPctChange(r)
    /\ r.body = [authRole |-> "owner", profitSharePct |-> 30]
    /\ r.res.status = 403
    /\ OneAuditRow(r, "BLOCKED_PS_PCT_CHANGE", "team_members")
    /\ team_members[r.id] = r.pre.team_members[r.id]

(***************************************************************************)
(* C24.  A PATCH /team/:id answered 200 records an EDIT_TEAM_PS_PCT row,   *)
(* from the previous to the new percentage, exactly when the stored        *)
(* percentage changed; a payload whose profitSharePct equals the stored    *)
(* value is accepted also for a profit-share-locked member and records     *)
(* neither EDIT_TEAM_PS_PCT nor BLOCKED_PS_PCT_CHANGE.  (The row count is  *)
(* stated for requests whose audit insert the store accepts.)              *)
(***************************************************************************)
SamePct(r) ==
  /\ "profitSharePct" \in DOMAIN r.body
  /\ r.body.profitSharePct = r.pre.team_members[r.id].profit_share_pct

C24_PctAuditIffChanged ==
  \A s \in DOMAIN req : LET r == req[s] IN
    TeamPatchOf(r)
    => LET old == r.pre.team_members[r.id].profit_share_pct IN
       /\ r.res.status = 200 =>
            LET new == team_members[r.id].profit_share_pct IN
            /\ (old # new /\ r.fault # "audit") =>
                 /\ OneAuditRow(r, "EDIT_TEAM_PS_PCT", "team_members")
                 /\ NewAudit(r)[1].changes.from = old
                 /\ NewAudit(r)[1].changes.to = new
                 /\ new = r.body.profitSharePct
            /\ old = new => NewAudit(r) = <<>>
       /\ (SamePct(r) /\ PaidIn(r.pre, r.id) /\ r.fault # "write"
             /\ ("authRole" \in DOMAIN r.body => r.body.authRole \in validRoles)) =>
            /\ r.res.status = 200
            /\ NewAudit(r) = <<>>

\* The percentage changed to 30 and recorded, the member then paid, and a
\* request carrying 30 again accepted without any audit row.
C24_Witness ==
  LET r == req[1] IN
    /\ TeamPatchOf(r)
    /\ r.body = [profitSharePct |-> 30]
    /\ SamePct(r)
    /\ PaidIn(r.pre, r.id)
    /\ r.res.status = 200
    /\ NewAudit(r) = <<>>
    /\ Len(audit_log) = 1
    /\ audit_log[1].action = "EDIT_TEAM_PS_PCT"
    /\ audit_log[1].changes.from = 35
    /\ audit_log[1].changes.to = 30

(***************************************************************************)
(* C23.  A PATCH /deals/:id answered 200 records an EDIT_DEAL row exactly  *)
(* when some column has a value after the update different from the one   *)
(* before it; the row's payload holds exactly the changed columns, each    *)
(* with from = the value before and to = the value after.  An update that  *)
(* changes no value records no audit row.  (The row count is stated for    *)
(* requests whose audit insert the store accepts.)                         *)
(***************************************************************************)
ChangedColumns(before, after) == {c \in DOMAIN before : before[c] # after[c]}

C23_EditDealRowIffChanged ==
  \A s \in DOMAIN req : LET r == req[s] IN
    (DealPatchOf(r) /\ r.res.status = 200)
    => LET before == r.pre.deals[r.id]
           after == deals[r.id]
           changed == ChangedColumns(before, after)
       IN /\ changed \subseteq DOMAIN dealToRow(r.body, TRUE)
          /\ (changed # {} /\ r.fault # "audit") =>
               /\ OneAuditRow(r, "EDIT_DEAL", "deals")
               /\ DOMAIN NewAudit(r)[1].changes = changed
               /\ \A c \in changed :
                    /\ NewAudit(r)[1].changes[c].from = before[c]
                    /\ NewAudit(r)[1].changes[c].to = after[c]
          /\ changed = {} => NewAudit(r) = <<>>

\* A payload carrying the stored value and a new invoice status: the row
\* records the invoice status alone.
C23_Witness ==
  LET r == req[1] IN
    /\ DealPatchOf(r) /\ r.res.status = 200
    /\ r.body = [invoiceStatus |-> "paid", value |-> 1000]
    /\ OneAuditRow(r, "EDIT_DEAL", "deals")
    /\ DOMAIN NewAudit(r)[1].changes = {"invoice_status"}
    /\ NewAudit(r)[1].changes.invoice_status = [from |-> "none", to |-> "paid"]
    /\ deals[r.id].value = 1000

(***************************************************************************)
(* C28.  Every DELETE_DEAL audit row belongs to a deal that existed when   *)
(* the request arrived and that the request has removed: the row is        *)
(* written only after the delete has committed, so an answered request has *)
(* recorded none when its delete failed and none when its id names no      *)
(* stored deal.  (DELETE /pay-log/:id has the same shape.)                 *)
(***************************************************************************)
C28_DeleteAuditAfterDelete ==
  \A s \in DOMAIN req : LET r == req[s] IN
    (/\ Done(r)
     /\ r.op = DELETE_DEAL
     /\ \E i \in 1..Len(NewAudit(r)) : NewAudit(r)[i].action = "DELETE_DEAL")
    => /\ r.id \in DOMAIN r.pre.deals
       /\ r.id \notin DOMAIN deals

(***************************************************************************)
(* C25.  A request rejected by a lock rule applies none of its payload: a  *)
(* blocked PATCH /deals/:id leaves every column of the deal as it was,     *)
(* also the stage and invoice status its payload carries; a blocked PATCH  *)
(* /tasks/:id leaves every field of the task as it was; a blocked PATCH    *)
(* /team/:id leaves name, role, active, auth role and PIN hash as they     *)
(* were.                                                                   *)
(***************************************************************************)
PatchLocks == {"financial-fields-locked", "task-hours-locked", "profit-share-locked"}

MixedPayload(r) ==
  \/ r.op = PATCH_DEAL /\ {"stage", "invoiceStatus"} \subseteq DOMAIN r.body
  \/ r.op = PATCH_TASK /\ {"status", "title"} \subseteq DOMAIN r.body
  \/ r.op = PATCH_TEAM
       /\ {"name", "role", "active", "authRole", "pin"} \subseteq DOMAIN r.body

C25_BlockedAppliesNothing ==
  \A s \in DOMAIN req : LET r == req[s] IN
    (Violating(r) /\ LockViolation(r) \in PatchLocks)
      => /\ r.res.status = 403
         /\ deals = r.pre.deals
         /\ tasks = r.pre.tasks
         /\ team_members = r.pre.team_members
         /\ Snapshot = r.pre

\* The paid deal after a refused payload that carried a new value, a new
\* stage and invoice status 'sent': still paid, its stage and value kept.
C25_Witness ==
  LET r == req[1] IN
    /\ Violating(r)
    /\ LockViolation(r) = "financial-fields-locked"
    /\ MixedPayload(r)
    /\ r.body.invoiceStatus = "sent"
    /\ r.res.status = 403
    /\ deals[r.id].invoice_status = "paid"
    /\ deals[r.id].stage = "Proposal"
    /\ deals[r.id].value = 1000

(***************************************************************************)
(* Creating and deleting tasks, and the specification of the task routes   *)
(* around a project that stays hours-locked.                               *)
(***************************************************************************)
TaskNewIds == <<"tn1", "tn2", "tn3", "tn4", "tn5", "tn6", "tn7", "tn8">>

\* The row POST /api/tasks inserts: `x || default` for the optional fields;
\* an absent projectId is stored as NULL.
TaskRow(body) ==
  [title |-> Field(body, "title", NullText),
   project_id |-> Field(body, "projectId", NullText),
   assignee_id |-> OrStr(Field(body, "assigneeId", ""), NullText),
   due_date |-> OrStr(Field(body, "dueDate", ""), NullText),
   priority |-> OrStr(Field(body, "priority", ""), "med"),
   status |-> OrStr(Field(body, "status", ""), "todo"),
   est_hours |-> OrNum(Field(body, "estHours", 0), 0)]

\* app.post('/api/tasks'): any authenticated user, one store call, no lock
\* check; tasks.title is NOT NULL and tasks.project_id references projects.
PostTask(s, body, user, fault) ==
  /\ Free(s)
  /\ nreq' = nreq + 1
  /\ UNCHANGED tokens
  /\ LET r == NewReq("POST /api/tasks", "", body, user, fault)
         row == TaskRow(body)
     IN IF \/ fault = "write"
           \/ row.title = NullText
           \/ row.project_id \notin DOMAIN projects \cup {NullText}
          THEN /\ SetReq(s, Catch(r, "error"))
               /\ UNCHANGED tasks
          ELSE LET id == TaskNewIds[nreq + 1] IN
               /\ tasks' = (id :> row) @@ tasks
               /\ SetReq(s, [Respond(r, 201, <<>>) EXCEPT !.id = id])
  /\ UNCHANGED <<deals, projects, team_members, profit_share_status,
                 pay_status, pay_log, audit_log>>

\* app.delete('/api/tasks/:id'): requireCanDelete, one store call, no lock
\* check; deleting no row is not an error.
DeleteTask(s, id, user, fault) ==
  /\ Free(s)
  /\ nreq' = nreq + 1
  /\ UNCHANGED tokens
  /\ LET r == NewReq("DELETE /api/tasks/:id", id, NoBody, user, fault) IN
       IF ~requireCanDelete(user)
         THEN /\ SetReq(s, Respond(r, 403, <<"Deleting records requires Admin or Class A access">>))
              /\ UNCHANGED tasks
       ELSE IF fault = "write"
         THEN /\ SetReq(s, Catch(r, "error"))
              /\ UNCHANGED tasks
       ELSE /\ tasks' = StoreDelete(tasks, id)
            /\ SetReq(s, Respond(r, 200, <<>>))
  /\ UNCHANGED <<deals, projects, team_members, profit_share_status,
                 pay_status, pay_log, audit_log>>

LockTaskIds == {"t1", "t2", "tn1"}

NewTaskBodies ==
  { [title |-> "Extra", projectId |-> "p1", estHours |-> 3],
    [title |-> "Extra", projectId |-> "p2"],
    [projectId |-> "p1", estHours |-> 3] }

MoveBodies ==
  { [projectId |-> "p2"], [projectId |-> "p1"],
    [projectId |-> "p2", estHours |-> 8], [projectId |-> "p1", estHours |-> 8],
    [estHours |-> 8] }

LockCallers ==
  { [user |-> Kyle, fault |-> "none"], [user |-> Kyle, fault |-> "write"],
    [user |-> Blaise, fault |-> "none"] }

\* Project p1 complete with its deal paid and task t1 in it; project p2
\* active without a deal and task t2 in it.
InitTaskLock ==
  /\ deals = ("d1" :> Deal0("paid"))
  /\ projects = ("p1" :> Project0("complete", "d1"))
                  @@ ("p2" :> Project0("active", NullText))
  /\ tasks = ("t1" :> Task0("p1")) @@ ("t2" :> Task0("p2"))
  /\ team_members = TeamWithRoles
  /\ tokens = TokensOf(TeamWithRoles)
  /\ profit_share_status = {}
  /\ pay_status = {}
  /\ pay_log = PayLog0
  /\ audit_log = <<>>
  /\ req = [s \in {1} |-> IdleReq]
  /\ nreq = 0

NextTaskLock ==
  \/ \E body \in NewTaskBodies, c \in LockCallers :
       Admit(MaxReqs) /\ PostTask(1, body, c.user, c.fault)
  \/ \E id \in LockTaskIds, body \in MoveBodies, c \in LockCallers :
       Admit(MaxReqs) /\ PatchTask(1, id, body, c.user, c.fault)
  \/ \E id \in LockTaskIds, c \in LockCallers :
       Admit(MaxReqs) /\ DeleteTask(1, id, c.user, c.fault)
  \/ PatchTaskProject(1)
  \/ PatchTaskDeal(1)
  \/ PatchTaskBlocked(1)
  \/ PatchTaskUpdate(1)

SpecTaskLock == InitTaskLock /\ [][NextTaskLock]_vars

(***************************************************************************)
(* C26.  While a project stays hours-locked (status 'complete', its deal   *)
(* paid), the estimated hours of the tasks belonging to it do not change:  *)
(* no step of a POST /tasks, PATCH /tasks/:id or DELETE /tasks/:id adds a  *)
(* task to it, removes one from it or changes the hours of one of them.    *)
(***************************************************************************)
ProjectHoursLocked(p) ==
  /\ p \in DOMAIN projects
  /\ projects[p].status = "complete"
  /\ projects[p].deal_id \in DOMAIN deals
  /\ deals[projects[p].deal_id].invoice_status = "paid"

HoursOf(p) ==
  [t \in {x \in DOMAIN tasks : tasks[x].project_id = p} |-> tasks[t].est_hours]

C26_LockedProjectHoursFrozen ==
  [][ \A p \in {"p1", "p2"} :
        (ProjectHoursLocked(p) /\ ProjectHoursLocked(p)')
          => HoursOf(p)' = HoursOf(p) ]_vars

(***************************************************************************)
(* Percentage edits and profit-share toggles of one member, with two       *)
(* requests in flight.                                                     *)
(***************************************************************************)
ConcPctBodies == { [profitSharePct |-> 30], [profitSharePct |-> 40] }

ConcPsBodies ==
  { [quarterKey |-> "Q1-2025", memberId |-> "m2", paid |-> b] : b \in BOOLEAN }

InitTeamConc == InitBase(Slots, "none", "active", "d1", {})

NextTeamConc ==
  \/ \E s \in Slots, body \in ConcPctBodies :
       Admit(MaxConcReqs) /\ PatchTeam(s, "m2", body, Kyle, "none")
  \/ \E s \in Slots, body \in ConcPsBodies :
       Admit(MaxConcReqs) /\ PostProfitShareStatus(s, body, Kyle, "none")
  \/ \E s \in Slots : PatchTeamPaid(s)
  \/ \E s \in Slots : PatchTeamBlocked(s)
  \/ \E s \in Slots : PatchTeamRead(s)
  \/ \E s \in Slots : PatchTeamUpdate(s)
  \/ \E s \in Slots : PatchTeamAudit(s)

SpecTeamConc == InitTeamConc /\ [][NextTeamConc]_vars

(***************************************************************************)
(* C27.  With a PATCH /team/:id that changes the percentage interleaved    *)
(* with a POST /profit-share-status that marks the same member paid, the   *)
(* percentage write is never committed after the paid row is stored: no    *)
(* step changes the percentage of a member who has a paid row when the     *)
(* step is taken.                                                          *)
(***************************************************************************)
C27_NoPctWriteOnPaidMember ==
  [][ \A m \in DOMAIN team_members :
        (/\ \E row \in profit_share_status : row.member_id = m /\ row.paid
         /\ m \in DOMAIN team_members')
          => team_members'[m].profit_share_pct = team_members[m].profit_share_pct ]_vars

(***************************************************************************)
(* Two members stored as admin, both logged in: PATCH and DELETE on        *)
(* /team/:id by either of them, one request at a time.                     *)
(***************************************************************************)
AdminBodies == { [authRole |-> "class_a"], [authRole |-> "admin"], [name |-> "K"] }

AdminCallers ==
  { [user |-> Kyle, fault |-> "none"], [user |-> Kyle, fault |-> "write"],
    [user |-> NathanAdmin, fault |-> "none"] }

InitAdmins ==
  /\ deals = ("d1" :> Deal0("none"))
  /\ projects = ("p1" :> Project0("active", "d1"))
  /\ tasks = ("t1" :> Task0("p1"))
  /\ team_members = [TeamWithRoles EXCEPT !["m2"].auth_role = "admin"]
  /\ tokens = TokensOf(team_members)
  /\ profit_share_status = {}
  /\ pay_status = {}
  /\ pay_log = PayLog0
  /\ audit_log = <<>>
  /\ req = [s \in {1} |-> IdleReq]
  /\ nreq = 0

NextAdmins ==
  \/ \E id \in {"m1", "m2", "m3"}, body \in AdminBodies, c \in AdminCallers :
       Admit(MaxReqs) /\ PatchTeam(1, id, body, c.user, c.fault)
  \/ \E id \in {"m1", "m2", "m3"}, c \in AdminCallers :
       Admit(MaxReqs) /\ DeleteTeam(1, id, c.user, c.fault)
  \/ PatchTeamRead(1)
  \/ PatchTeamUpdate(1)

SpecAdmins == InitAdmins /\ [][NextAdmins]_vars

(***************************************************************************)
(* C30.  Starting with a member stored as admin, after any sequence of     *)
(* PATCH /team/:id and DELETE /team/:id requests by holders of admin       *)
(* tokens some member is still stored as admin.                            *)
(***************************************************************************)
C30_SomeAdminRemains ==
  \E id \in DOMAIN team_members : team_members[id].auth_role = "admin"

====
